---- MODULE Spec2Model ----
(***************************************************************************)
(* A model of the httpx toolkit: the copy-on-write request builder         *)
(* (src/httpx.go), the transport middleware stack (src/unnamed/part_000)   *)
(* and the execution path Do / DoWithTransport / DoWithClient.             *)
(*                                                                         *)
(* Builders, url.Values maps, http.Header maps and contexts are heap       *)
(* objects addressed by their index, so that aliasing between two builders *)
(* is a fact of the state and not of the notation.                         *)
(***************************************************************************)
EXTENDS Integers, Sequences, FiniteSets, TLC

VARIABLES
    builders,       \* heap of *builder structs (src/httpx.go:49-67)
    urlValuesObjs,  \* heap of url.Values maps the builders point to
    headerObjs,     \* heap of http.Header maps the builders point to
    codesObjs,      \* heap of []int backing arrays (expectedStatusCodes)
    parent,         \* parent[i]: the receiver builder i was derived from (0: New())
    pc,             \* where the call in progress stands
    op,             \* the entry point that was called, and its receiver
    stack,          \* the assembled transport (or handler): its layers, outermost first
    pos,            \* the layer of stack that runs next
    req,            \* the *http.Request travelling down the stack
    ret,            \* the (response, error) pair travelling back up
    ctxs,           \* heap of context.Context values
    now,            \* the clock, in seconds
    stub,           \* what the base transport will do with the request
    trace,          \* what each layer did, in order
    result,         \* what the call returned to its caller
    target,         \* the response target slot (builder.resp points to it)
    retriable,      \* the *retriableTransport struct (src/transport.go:297-300)
    calls,          \* the RoundTrip calls in progress through retriable
    singletons      \* the package-level sync.Once / instance pairs (src/transport.go:139-148)

rvars == <<retriable, calls, singletons>>

bvars == <<builders, urlValuesObjs, headerObjs, codesObjs, parent, rvars>>

cvars == <<pc, op, stack, pos, req, ret, ctxs, now, stub, trace, result, target>>

vars == <<builders, urlValuesObjs, headerObjs, codesObjs, parent,
          pc, op, stack, pos, req, ret, ctxs, now, stub, trace, result, target,
          retriable, calls, singletons>>

----------------------------------------------------------------------------
(* Bounds *)

MaxBuilders == 3

\* the clock stops here (above every timeout of the model)
MaxTime == 12

\* the longest finite time the base transport blocks
MaxBlock == 3

----------------------------------------------------------------------------
(* Values *)

Nil == "nil"

ContentTypeKey == "Content-Type"

ContentTypeJson == "application/json"

\* time.Second * 10, in seconds
defaultTransprtTimeout == 10

StatusOK == 200

StatusInternalServerError == 500

QKeys == {"q1", "q2"}

\* header keys as a caller may write them, and their canonical MIME form
HKeysRaw == {"x-a", "X-A", "content-type", "Content-Type", "Authorization", "Connection"}

HKeys == {"X-A", "Content-Type", "Authorization", "Connection"}

\* textproto.CanonicalMIMEHeaderKey, which http.Header.Add/Set/Get apply
CanonicalHeaderKey(k) ==
    CASE k = "x-a" -> "X-A"
      [] k = "content-type" -> "Content-Type"
      [] OTHER -> k

----------------------------------------------------------------------------
(* url.Values and http.Header: a key absent from the Go map holds <<>> *)

EmptyValues == [k \in QKeys |-> <<>>]

EmptyHeader == [k \in HKeys |-> <<>>]

\* url.Values.Add
ValuesAdd(m, key, value) == [m EXCEPT ![key] = Append(@, value)]

\* http.Header.Add
HeaderAdd(h, key, value) == [h EXCEPT ![CanonicalHeaderKey(key)] = Append(@, value)]

\* http.Header.Set
HeaderSet(h, key, value) == [h EXCEPT ![CanonicalHeaderKey(key)] = <<value>>]

\* http.Header.Get
HeaderGet(h, key) ==
    IF h[CanonicalHeaderKey(key)] = <<>> THEN "" ELSE h[CanonicalHeaderKey(key)][1]

\* for _, value := range values { dst.Add(key, value) }
RECURSIVE ValuesAddEach(_, _, _)
ValuesAddEach(dst, key, values) ==
    IF values = <<>> THEN dst
    ELSE ValuesAddEach(ValuesAdd(dst, key, values[1]), key, Tail(values))

\* for key, values := range src { for ... { dst.Add(key, value) } }, over the keys
\* still to visit (Go visits a map's keys in no fixed order; Add keeps each key apart)
RECURSIVE ValuesAddAll(_, _, _)
ValuesAddAll(dst, src, keys) ==
    IF keys = {} THEN dst
    ELSE LET key == CHOOSE k \in keys : TRUE
         IN  ValuesAddAll(ValuesAddEach(dst, key, src[key]), src, keys \ {key})

RECURSIVE HeaderAddEach(_, _, _)
HeaderAddEach(dst, key, values) ==
    IF values = <<>> THEN dst
    ELSE HeaderAddEach(HeaderAdd(dst, key, values[1]), key, Tail(values))

RECURSIVE HeaderAddAll(_, _, _)
HeaderAddAll(dst, src, keys) ==
    IF keys = {} THEN dst
    ELSE LET key == CHOOSE k \in keys : TRUE
         IN  HeaderAddAll(HeaderAddEach(dst, key, src[key]), src, keys \ {key})

----------------------------------------------------------------------------
(* The builder (src/httpx.go) *)

ErrQuery == "query: Values() expects struct input"

Paths == {"/a"}

\* what query.Values(obj) returns for the objects a caller may pass: the values
\* and the error (a failing encoder leaves the pairs already encoded in place)
QueryObjs == {"struct", "notstruct", "failingfield"}

QueryValuesOf(obj) ==
    CASE obj = "struct" -> [values |-> ValuesAdd(EmptyValues, "q1", "o"), err |-> Nil]
      [] obj = "notstruct" -> [values |-> EmptyValues, err |-> ErrQuery]
      [] OTHER -> [values |-> ValuesAdd(EmptyValues, "q2", "o"), err |-> ErrQuery]

\* BasicAuth(username, password): base64 of "username:password"
BasicAuth(username, password) ==
    IF username = "u" /\ password = "p" THEN "dTpw" ELSE "Og=="

BasicPrefixed(encoded) == IF encoded = "dTpw" THEN "Basic dTpw" ELSE "Basic Og=="

\* New(): the builder; it points to map 1, header 1 and slice 1 of the heaps
NewBuilder ==
    [path |-> "", method |-> "", baseURL |-> "", codec |-> "JsonCodec",
     resp |-> Nil, req |-> Nil, urlValues |-> 1, header |-> 1,
     expectedStatusCodes |-> 1,
     loggingReq |-> TRUE, loggingResp |-> TRUE,
     timeout |-> defaultTransprtTimeout, tracing |-> TRUE,
     contentType |-> ContentTypeJson, insecure |-> FALSE,
     transport |-> Nil, err |-> Nil]

\* a struct copy alone (*newBuilder = *b): the copy keeps the receiver's maps
cloneShared(b) ==
    [builder |-> builders[b], values |-> urlValuesObjs, headers |-> headerObjs,
     codes |-> codesObjs]

\* b.clone(): a new struct and fresh copies of both maps (the slice header is
\* copied, not the array); the result is the new struct together with the heaps
\* after the allocation
clone(b) ==
    [builder |-> [builders[b] EXCEPT !.urlValues = Len(urlValuesObjs) + 1,
                                     !.header = Len(headerObjs) + 1],
     values  |-> Append(urlValuesObjs,
                     ValuesAddAll(EmptyValues, urlValuesObjs[builders[b].urlValues], QKeys)),
     headers |-> Append(headerObjs,
                     HeaderAddAll(EmptyHeader, headerObjs[builders[b].header], HKeys)),
     codes   |-> codesObjs]

\* return newBuilder: the new struct enters the heap, derived from receiver b
Return(b, c) ==
    /\ Len(builders) < MaxBuilders
    /\ builders' = Append(builders, c.builder)
    /\ urlValuesObjs' = c.values
    /\ headerObjs' = c.headers
    /\ codesObjs' = c.codes
    /\ parent' = Append(parent, b)
    /\ UNCHANGED <<cvars, rvars>>

Get(b, path) ==
    LET newBuilder == clone(b)
    IN  Return(b, IF newBuilder.builder.err # Nil THEN newBuilder
                  ELSE [newBuilder EXCEPT !.builder.method = "GET",
                                          !.builder.path = path])

Head_(b, path) ==
    LET newBuilder == clone(b)
    IN  Return(b, IF newBuilder.builder.err # Nil THEN newBuilder
                  ELSE [newBuilder EXCEPT !.builder.method = "HEAD",
                                          !.builder.path = path])

Post(b, path) ==
    LET newBuilder == clone(b)
    IN  Return(b, IF newBuilder.builder.err # Nil THEN newBuilder
                  ELSE [newBuilder EXCEPT !.builder.method = "POST",
                                          !.builder.path = path])

Put(b, path) ==
    LET newBuilder == clone(b)
    IN  Return(b, IF newBuilder.builder.err # Nil THEN newBuilder
                  ELSE [newBuilder EXCEPT !.builder.method = "PUT",
                                          !.builder.path = path])

Patch(b, path) ==
    LET newBuilder == clone(b)
    IN  Return(b, IF newBuilder.builder.err # Nil THEN newBuilder
                  ELSE [newBuilder EXCEPT !.builder.method = "PATCH",
                                          !.builder.path = path])

Delete(b, path) ==
    LET newBuilder == clone(b)
    IN  Return(b, IF newBuilder.builder.err # Nil THEN newBuilder
                  ELSE [newBuilder EXCEPT !.builder.method = "DELETE",
                                          !.builder.path = path])

Connect(b, path) ==
    LET newBuilder == clone(b)
    IN  Return(b, IF newBuilder.builder.err # Nil THEN newBuilder
                  ELSE [newBuilder EXCEPT !.builder.method = "CONNECT",
                                          !.builder.path = path])

Options(b, path) ==
    LET newBuilder == clone(b)
    IN  Return(b, IF newBuilder.builder.err # Nil THEN newBuilder
                  ELSE [newBuilder EXCEPT !.builder.method = "OPTIONS",
                                          !.builder.path = path])

Trace(b, path) ==
    LET newBuilder == clone(b)
    IN  Return(b, IF newBuilder.builder.err # Nil THEN newBuilder
                  ELSE [newBuilder EXCEPT !.builder.method = "TRACE",
                                          !.builder.path = path])

Method(b, method, path) ==
    LET newBuilder == clone(b)
    IN  Return(b, IF newBuilder.builder.err # Nil THEN newBuilder
                  ELSE [newBuilder EXCEPT !.builder.method = method,
                                          !.builder.path = path])

BaseURL(b, baseURL) ==
    LET newBuilder == clone(b)
    IN  Return(b, IF newBuilder.builder.err # Nil THEN newBuilder
                  ELSE [newBuilder EXCEPT !.builder.baseURL = baseURL])

WithQueryString(b, key, value) ==
    LET newBuilder == clone(b)
    IN  Return(b, IF newBuilder.builder.err # Nil THEN newBuilder
                  ELSE [newBuilder EXCEPT !.values[newBuilder.builder.urlValues] =
                                              ValuesAdd(@, key, value)])

\* without the test of the clone's error
WithQueryStringObjUnguarded(b, obj) ==
    LET newBuilder == clone(b)
        got == QueryValuesOf(obj)
    IN  Return(b, [newBuilder EXCEPT !.builder.err = got.err,
                                     !.values[newBuilder.builder.urlValues] =
                                         ValuesAddAll(@, got.values, QKeys)])

\* the error of query.Values is stored first, then whatever values it returned
\* are added
WithQueryStringObj(b, obj) ==
    LET newBuilder == clone(b)
        got == QueryValuesOf(obj)
    IN  Return(b, IF newBuilder.builder.err # Nil THEN newBuilder
                  ELSE [newBuilder EXCEPT !.builder.err = got.err,
                                          !.values[newBuilder.builder.urlValues] =
                                              ValuesAddAll(@, got.values, QKeys)])

WithURLValues(b, urlValues) ==
    LET newBuilder == clone(b)
    IN  Return(b, IF newBuilder.builder.err # Nil THEN newBuilder
                  ELSE [newBuilder EXCEPT !.values[newBuilder.builder.urlValues] =
                                              ValuesAddAll(@, urlValues, QKeys)])

WithCodec(b, codec) ==
    LET newBuilder == clone(b)
    IN  Return(b, IF newBuilder.builder.err # Nil THEN newBuilder
                  ELSE [newBuilder EXCEPT !.builder.codec = codec])

\* the header added to the receiver's map, before the clone is taken
WithHeaderOnReceiver(b, key, value) ==
    LET newBuilder == clone(b)
        added == HeaderAdd(headerObjs[builders[b].header], key, value)
    IN  Return(b, IF newBuilder.builder.err # Nil THEN newBuilder
                  ELSE [newBuilder EXCEPT !.headers[builders[b].header] = added,
                                          !.headers[newBuilder.builder.header] = added])

WithHeader(b, key, value) ==
    LET newBuilder == clone(b)
    IN  Return(b, IF newBuilder.builder.err # Nil THEN newBuilder
                  ELSE [newBuilder EXCEPT !.headers[newBuilder.builder.header] =
                                              HeaderAdd(@, key, value)])

WithBasicAuth(b, username, password) ==
    LET newBuilder == clone(b)
    IN  Return(b, IF newBuilder.builder.err # Nil THEN newBuilder
                  ELSE [newBuilder EXCEPT !.headers[newBuilder.builder.header] =
                            HeaderSet(@, "Authorization",
                                      BasicPrefixed(BasicAuth(username, password)))])

\* headers is the caller's map: its keys are as the caller wrote them
WithHeaders(b, headers) ==
    LET newBuilder == clone(b)
    IN  Return(b, IF newBuilder.builder.err # Nil THEN newBuilder
                  ELSE [newBuilder EXCEPT !.headers[newBuilder.builder.header] =
                                              HeaderAddAll(@, headers, DOMAIN headers)])

WithReq(b, r) ==
    LET newBuilder == clone(b)
    IN  Return(b, IF newBuilder.builder.err # Nil THEN newBuilder
                  ELSE [newBuilder EXCEPT !.builder.req = r])

WithResp(b, r) ==
    LET newBuilder == clone(b)
    IN  Return(b, IF newBuilder.builder.err # Nil THEN newBuilder
                  ELSE [newBuilder EXCEPT !.builder.resp = r])

\* the variadic argument arrives as a slice (nil when no code is given); the new
\* builder keeps that slice, here the next array of the heap
ExpectedStatusCodes(b, expectedStatusCodes) ==
    LET newBuilder == clone(b)
    IN  Return(b, IF newBuilder.builder.err # Nil THEN newBuilder
                  ELSE IF expectedStatusCodes = <<>>
                       THEN [newBuilder EXCEPT !.builder.expectedStatusCodes = 0]
                       ELSE [newBuilder EXCEPT
                                !.codes = Append(@, expectedStatusCodes),
                                !.builder.expectedStatusCodes = Len(codesObjs) + 1])

Logging(b, loggingReq, loggingResp) ==
    LET newBuilder == clone(b)
    IN  Return(b, IF newBuilder.builder.err # Nil THEN newBuilder
                  ELSE [newBuilder EXCEPT !.builder.loggingReq = loggingReq,
                                          !.builder.loggingResp = loggingResp])

Timeout(b, timeout) ==
    LET newBuilder == clone(b)
    IN  Return(b, IF newBuilder.builder.err # Nil THEN newBuilder
                  ELSE [newBuilder EXCEPT !.builder.timeout = timeout])

Tracing(b, tracing) ==
    LET newBuilder == clone(b)
    IN  Return(b, IF newBuilder.builder.err # Nil THEN newBuilder
                  ELSE [newBuilder EXCEPT !.builder.tracing = tracing])

ContentType(b, contentType) ==
    LET newBuilder == clone(b)
    IN  Return(b, IF newBuilder.builder.err # Nil THEN newBuilder
                  ELSE [newBuilder EXCEPT !.builder.contentType = contentType])

Insecure(b, insecure) ==
    LET newBuilder == clone(b)
    IN  Return(b, IF newBuilder.builder.err # Nil THEN newBuilder
                  ELSE [newBuilder EXCEPT !.builder.insecure = insecure])

WithTransport(b, transport) ==
    LET newBuilder == clone(b)
    IN  Return(b, IF newBuilder.builder.err # Nil THEN newBuilder
                  ELSE [newBuilder EXCEPT !.builder.transport = transport])

----------------------------------------------------------------------------
(* Requests, responses, bodies and contexts *)

\* time.Second * 10, in seconds
defaultHandlerTimeout == 10

ErrDeadline == "context deadline exceeded"

ErrCanceled == "context canceled"

ErrNetwork == "dial tcp: connection refused"

ErrStatusCode == "expected statuscode, got other"

ErrStatusCodes == "expected statuscodes, got other"

ErrBodyRead == "read body: context canceled"

ErrParseURL == "parse: invalid URL escape"

ErrEncode == "json: unsupported type"

ErrBadMethod == "net/http: invalid method"

ErrDecode == "json: cannot unmarshal"

\* an io.ReadCloser: what is left to read of it, whether its bytes come off the
\* wire under a context, whether it was read to its end, whether it was closed
NoBody == [kind |-> "none", data |-> "", ctx |-> 0, consumed |-> FALSE, closed |-> FALSE]

BytesBody(data) ==
    [kind |-> "bytes", data |-> data, ctx |-> 0, consumed |-> FALSE, closed |-> FALSE]

WireBody(data, ctx) ==
    [kind |-> "wire", data |-> data, ctx |-> ctx, consumed |-> FALSE, closed |-> FALSE]

NoReq ==
    [ctx |-> 0, method |-> "", url |-> "", rawQuery |-> <<>>,
     header |-> EmptyHeader, body |-> NoBody, data |-> "", w |-> Nil]

NoResp == [status |-> 0, body |-> NoBody]

NoRet == [resp |-> NoResp, err |-> Nil]

NoStub == [kind |-> "none", status |-> 0, until |-> 0]

NoResult == [err |-> Nil, wrapped |-> FALSE, built |-> FALSE]

NoOp == [name |-> Nil, b |-> 0, args |-> <<>>]

\* ctx 0 is context.Background(); the others are ctxs[c]
Done(c) == c # 0 /\ ctxs[c].err # Nil

CtxErr(c) == IF c = 0 THEN Nil ELSE ctxs[c].err

RECURSIVE DescendsFrom(_, _, _)
\* in heap cs, context c is a or was derived from a
DescendsFrom(cs, c, a) ==
    \/ c = a
    \/ c # 0 /\ DescendsFrom(cs, cs[c].parent, a)

\* context.WithTimeout(parent, timeout): the new context, already done when
\* its parent is or when the deadline has passed
WithTimeout(ctxParent, timeout) ==
    [parent |-> ctxParent, deadline |-> now + timeout,
     err |-> IF Done(ctxParent) THEN CtxErr(ctxParent)
             ELSE IF timeout <= 0 THEN ErrDeadline ELSE Nil]

\* context.WithValue(parent, ...): no deadline of its own
WithValue(ctxParent) ==
    [parent |-> ctxParent, deadline |-> -1,
     err |-> IF Done(ctxParent) THEN CtxErr(ctxParent) ELSE Nil]

\* cancel(): context c and every context derived from it that is not done yet
\* ends with "context canceled"
Cancelled(cs, c) ==
    [d \in DOMAIN cs |->
        IF cs[d].err = Nil /\ DescendsFrom(cs, d, c)
        THEN [cs[d] EXCEPT !.err = ErrCanceled] ELSE cs[d]]

RECURSIVE Expired(_, _, _)
\* the clock reaching t: every context whose deadline has come, and every
\* context derived from one, ends with "context deadline exceeded"
Expired(cs, t, todo) ==
    IF todo = {} THEN cs
    ELSE LET c == CHOOSE x \in todo : \A y \in todo : x <= y
             hit == cs[c].err = Nil /\ cs[c].deadline # -1 /\ cs[c].deadline <= t
             cs1 == IF hit
                    THEN [d \in DOMAIN cs |->
                            IF cs[d].err = Nil /\ DescendsFrom(cs, d, c)
                            THEN [cs[d] EXCEPT !.err = ErrDeadline] ELSE cs[d]]
                    ELSE cs
         IN  Expired(cs1, t, todo \ {c})

\* no retriable transport was made
NoRetriable == [maxRetry |-> 0]

\* the accessors of the package-level singletons
Accessors ==
    {"Transport", "InsecureTransport", "WrappedTransport", "WrappedInsecureTransport",
     "Client", "InsecureClient", "WrappedClient", "WrappedInsecureClient"}

\* the package variables at program start: every sync.Once is its zero value
\* (done 0, mutex m unlocked) and every instance is nil (0); built counts the
\* runs of the constructor, which the program does not record
PackageVars ==
    [f \in Accessors |-> [done |-> 0, m |-> 0, instance |-> 0, built |-> 0]]

\* no call is under way through a layer stack
StackIdle ==
    /\ pc = "idle" /\ op = NoOp /\ stack = <<>> /\ pos = 0
    /\ req = NoReq /\ ret = NoRet /\ now = 0 /\ stub = NoStub
    /\ trace = <<>> /\ result = NoResult /\ target = ""

\* no call was made yet
CallIdle ==
    /\ StackIdle /\ ctxs = <<>>
    /\ retriable = NoRetriable /\ calls = <<>> /\ singletons = PackageVars

----------------------------------------------------------------------------
(* BuildHTTPReq (src/httpx.go:441-503) *)

\* stdurl.Parse of baseURL + path: the path before "?", and the query after it
\* the paths that carry a query string, and the pairs each one writes
QueryPaths ==
    {"/a?q1=z", "/a?q1=z&q1=a", "/a?q2=a&q1=z", "/a?q1=a&q2=z&q1=z", "/a?q2=z&q2=z"}

RawQueryOf(path) ==
    CASE path = "/a?q1=z" -> <<<<"q1", "z">>>>
      [] path = "/a?q1=z&q1=a" -> <<<<"q1", "z">>, <<"q1", "a">>>>
      [] path = "/a?q2=a&q1=z" -> <<<<"q2", "a">>, <<"q1", "z">>>>
      [] path = "/a?q1=a&q2=z&q1=z" -> <<<<"q1", "a">>, <<"q2", "z">>, <<"q1", "z">>>>
      [] path = "/a?q2=z&q2=z" -> <<<<"q2", "z">>, <<"q2", "z">>>>
      [] OTHER -> <<>>

PathOnly(path) == IF path \in QueryPaths THEN "/a" ELSE path

RECURSIVE ParseQuery(_, _)
\* url.ParseQuery: each pair is appended to its key's values as it is met
ParseQuery(m, pairs) ==
    IF pairs = <<>> THEN m
    ELSE ParseQuery(ValuesAdd(m, pairs[1][1], pairs[1][2]), Tail(pairs))

\* urlObj.Query()
PathQuery(path) == ParseQuery(EmptyValues, RawQueryOf(path))

ParseFails(path) == path = "%zz"

\* the keys of url.Values.Encode, which sorts them
QKeyOrder == <<"q1", "q2">>

RECURSIVE EncodeKey(_, _)
EncodeKey(key, values) ==
    IF values = <<>> THEN <<>>
    ELSE <<<<key, values[1]>>>> \o EncodeKey(key, Tail(values))

RECURSIVE EncodeFrom(_, _)
\* url.Values.Encode: the pairs, key by key in sorted order
EncodeFrom(m, k) ==
    IF k > Len(QKeyOrder) THEN <<>>
    ELSE EncodeKey(QKeyOrder[k], m[QKeyOrder[k]]) \o EncodeFrom(m, k + 1)

Encode(m) == EncodeFrom(m, 1)

RECURSIVE HeaderSetEach(_, _, _)
\* for _, value := range values { headers.Set(key, value) }
HeaderSetEach(dst, key, values) ==
    IF values = <<>> THEN dst
    ELSE HeaderSetEach(HeaderSet(dst, key, values[1]), key, Tail(values))

RECURSIVE HeaderSetAll(_, _, _)
HeaderSetAll(dst, src, keys) ==
    IF keys = {} THEN dst
    ELSE LET key == CHOOSE k \in keys : TRUE
         IN  HeaderSetAll(HeaderSetEach(dst, key, src[key]), src, keys \ {key})

\* codec.Encode(b.req)
CodecEncode(codec, r) ==
    IF r = "unencodable" THEN [data |-> "", err |-> ErrEncode]
    ELSE [data |-> r, err |-> Nil]

\* http.NewRequestWithContext rejects a method that is not a token
ValidMethod(m) == m # "BAD METHOD"

\* the content type is set whatever the headers hold
StampContentTypeAlways(headers, contentType) ==
    HeaderSet(headers, ContentTypeKey, contentType)

\* if headers.Get(ContentTypeKey) == "" { headers.Set(ContentTypeKey, contentType) }
StampContentType(headers, contentType) ==
    IF HeaderGet(headers, ContentTypeKey) = ""
    THEN HeaderSet(headers, ContentTypeKey, contentType)
    ELSE headers

\* the path's values are added first, the builder's after them
MergedQueryPathFirst(builderValues, pathValues) ==
    ValuesAddAll(ValuesAddAll(EmptyValues, pathValues, QKeys), builderValues, QKeys)

\* the two loops over b.urlValues and over urlObj.Query()
MergedQuery(builderValues, pathValues) ==
    ValuesAddAll(ValuesAddAll(EmptyValues, builderValues, QKeys), pathValues, QKeys)

\* BuildHTTPReq past its test of the deferred error
MaterializeReq(b, ctx) ==
    LET bb == builders[b]
        urlValues == MergedQuery(urlValuesObjs[bb.urlValues], PathQuery(bb.path))
        method == IF bb.method = "" THEN "GET" ELSE bb.method
        enc == IF bb.req # Nil THEN CodecEncode(bb.codec, bb.req)
               ELSE [data |-> "", err |-> Nil]
        headers == HeaderSetAll(EmptyHeader, headerObjs[bb.header], HKeys)
        contentType == IF bb.contentType = "" THEN ContentTypeJson ELSE bb.contentType
        stamped == StampContentType(headers, contentType)
    IN  IF ParseFails(bb.path) THEN [req |-> NoReq, err |-> ErrParseURL]
        ELSE IF enc.err # Nil THEN [req |-> NoReq, err |-> enc.err]
        ELSE IF ~ValidMethod(method) THEN [req |-> NoReq, err |-> ErrBadMethod]
        ELSE [req |-> [ctx |-> ctx, method |-> method,
                       url |-> PathOnly(bb.path), rawQuery |-> Encode(urlValues),
                       header |-> stamped,
                       body |-> IF bb.req # Nil THEN BytesBody(enc.data) ELSE NoBody,
                       data |-> enc.data, w |-> Nil],
              err |-> Nil]

\* the request is materialized whatever the deferred error
BuildHTTPReqUnguarded(b, ctx) == MaterializeReq(b, ctx)

BuildHTTPReq(b, ctx) ==
    IF builders[b].err # Nil THEN [req |-> NoReq, err |-> builders[b].err]
    ELSE MaterializeReq(b, ctx)

----------------------------------------------------------------------------
(* Transport wrappers (src/unnamed/part_000) and their composition.           *)
(* A transport is the sequence of its layers, the outermost first and the    *)
(* base last; wrapping a transport puts a layer in front of it.              *)

Layer(kind) ==
    [kind |-> kind, id |-> 0, timeout |-> 0, reqBody |-> FALSE, respBody |-> FALSE,
     codes |-> {}]

\* the base transport: Transport(), InsecureTransport() or the builder's own
BaseTransport(which) == <<[Layer("base") EXCEPT !.id = which]>>

TimeoutTransport(timeout) ==
    [Layer("timeout") EXCEPT
        !.timeout = IF timeout <= 0 THEN defaultTransprtTimeout ELSE timeout]

JsonTransport == Layer("json")

LoggingTransport(loggingReqBody, loggingRespBody) ==
    [Layer("logging") EXCEPT !.reqBody = loggingReqBody, !.respBody = loggingRespBody]

TracingTransport == Layer("tracing")

StatusCodeTransport(expectedStatusCode) ==
    [Layer("statuscode") EXCEPT !.codes = {expectedStatusCode}]

\* only the first of the expected codes is accepted
StatusCodesTransportFirstOnly(expectedStatusCodes) ==
    [Layer("statuscodes") EXCEPT !.codes = {expectedStatusCodes[1]}]

\* expectedStatusCodesMap: the set of the codes given
StatusCodesTransport(expectedStatusCodes) ==
    [Layer("statuscodes") EXCEPT
        !.codes = {expectedStatusCodes[k] : k \in DOMAIN expectedStatusCodes}]

\* the closure WrapTransport and DefaultTransportWrapper return around next
TransportFunc == Layer("func")

\* next = wrapper(next): the wrapper's layer now runs before next
Wrapped(wrapper, next) == <<wrapper>> \o next

RECURSIVE WrapEachReversed(_, _)
\* the wrappers applied from the last to the first
WrapEachReversed(next, wrappers) ==
    IF wrappers = <<>> THEN next
    ELSE Wrapped(wrappers[1], WrapEachReversed(next, Tail(wrappers)))

RECURSIVE WrapEach(_, _)
\* for _, wrapper := range wrappers { next = wrapper(next) }
WrapEach(next, wrappers) ==
    IF wrappers = <<>> THEN next
    ELSE WrapEach(Wrapped(wrappers[1], next), Tail(wrappers))

WrapTransport(next, wrappers) == Wrapped(TransportFunc, WrapEach(next, wrappers))

DefaultTransportWrapper(next) ==
    Wrapped(TransportFunc,
            WrapEach(next, <<StatusCodeTransport(StatusOK),
                             JsonTransport,
                             LoggingTransport(TRUE, TRUE),
                             TracingTransport,
                             TimeoutTransport(defaultHandlerTimeout)>>))

\* timeout applied first instead of last
BuildTransportWrappersTimeoutFirst(bb, codes) ==
    <<TimeoutTransport(bb.timeout)>>
    \o <<StatusCodesTransport(IF Len(codes) # 0 THEN codes ELSE <<StatusOK>>)>>
    \o (IF bb.contentType = "" \/ bb.contentType = ContentTypeJson
        THEN <<JsonTransport>> ELSE <<>>)
    \o <<LoggingTransport(bb.loggingReq, bb.loggingResp)>>
    \o (IF bb.tracing THEN <<TracingTransport>> ELSE <<>>)

\* the wrapper list of builder.BuildTransport, in the order it is assembled
BuildTransportWrappers(bb, codes) ==
    <<StatusCodesTransport(IF Len(codes) # 0 THEN codes ELSE <<StatusOK>>)>>
    \o (IF bb.contentType = "" \/ bb.contentType = ContentTypeJson
        THEN <<JsonTransport>> ELSE <<>>)
    \o <<LoggingTransport(bb.loggingReq, bb.loggingResp)>>
    \o (IF bb.tracing THEN <<TracingTransport>> ELSE <<>>)
    \o <<TimeoutTransport(bb.timeout)>>

BuildTransport(b) ==
    LET bb == builders[b]
        base == IF bb.transport # Nil THEN BaseTransport(3)
                ELSE IF bb.insecure THEN BaseTransport(2) ELSE BaseTransport(1)
        codes == IF bb.expectedStatusCodes = 0 THEN <<>>
                 ELSE codesObjs[bb.expectedStatusCodes]
    IN  IF bb.err # Nil THEN [transport |-> <<>>, err |-> bb.err]
        ELSE [transport |-> WrapTransport(base, BuildTransportWrappers(bb, codes)),
              err |-> Nil]

----------------------------------------------------------------------------
(* A call in progress: the layers of stack run from pos = 1 down to the base, *)
(* then return from the base up to pos = 1 and out to the caller (pos = 0).  *)

Event(layer, phase) ==
    [layer |-> layer, phase |-> phase, pos |-> pos, id |-> stack[pos].id,
     at |-> now, ctx |-> req.ctx, made |-> 0, status |-> 0, data |-> "", err |-> Nil,
     w |-> req.w, body |-> NoBody]

At(kind, dir) == pc = dir /\ pos \in DOMAIN stack /\ stack[pos].kind = kind

\* the context the layer at position p made on the way down
CtxMadeAt(p) ==
    trace[CHOOSE k \in DOMAIN trace : trace[k].pos = p /\ trace[k].phase = "pre"
                                      /\ trace[k].made # 0].made

\* how reading a stream to its end may go: bytes off the wire stop coming once
\* the request's context is done, unless they were already buffered
ReadOutcomes(body) ==
    IF body.kind = "wire" /\ Done(body.ctx) THEN {"ok", "err"} ELSE {"ok"}

\* what a full read of the stream yields
ReadAll(body) == IF body.consumed \/ body.closed THEN "" ELSE body.data

\* the drained stream itself is handed back instead of a reader of its bytes
DrainBodySameStream(src) ==
    [data |-> ReadAll(src), body |-> [src EXCEPT !.consumed = TRUE],
     src |-> [src EXCEPT !.consumed = TRUE, !.closed = TRUE]]

\* the stream is read to its end and left open
DrainBodyLeftOpen(src) ==
    [data |-> ReadAll(src), body |-> BytesBody(ReadAll(src)),
     src |-> [src EXCEPT !.consumed = TRUE]]

\* DrainBody(src) when the read succeeds: the bytes, a fresh reader of them,
\* and src as the call leaves it, read to its end and closed
DrainBody(src) ==
    [data |-> ReadAll(src), body |-> BytesBody(ReadAll(src)),
     src |-> [src EXCEPT !.consumed = TRUE, !.closed = TRUE]]

\* drainBody(src) of the option-based path: the same, its error wrapped
drainBody(src) == DrainBody(src)

\* the caller's context: cancellable, not yet cancelled
CallerCtx == [parent |-> 0, deadline |-> -1, err |-> Nil]

Returns(r) ==
    /\ pc' = "up" /\ pos' = pos - 1 /\ ret' = r

Delegates ==
    /\ pc' = "down" /\ pos' = pos + 1 /\ UNCHANGED ret

\* the closure around the assembled chain: resp, err := next.RoundTrip(httpReq)
TransportFuncCall ==
    /\ At("func", "down")
    /\ Delegates
    /\ trace' = Append(trace, Event("func", "pre"))
    /\ UNCHANGED <<bvars, op, stack, req, ctxs, now, stub, result, target>>

TransportFuncReturn ==
    /\ At("func", "up")
    /\ Returns(IF ret.err # Nil THEN [resp |-> NoResp, err |-> ret.err] ELSE ret)
    /\ trace' = Append(trace, Event("func", "post"))
    /\ UNCHANGED <<bvars, op, stack, req, ctxs, now, stub, result, target>>

\* the derived context is made but the request goes on with its own
TimeoutTransportNoContext ==
    /\ At("timeout", "down")
    /\ Delegates
    /\ ctxs' = Append(ctxs, WithTimeout(req.ctx, stack[pos].timeout))
    /\ UNCHANGED req
    /\ trace' = Append(trace, [Event("timeout", "pre") EXCEPT !.made = Len(ctxs) + 1])
    /\ UNCHANGED <<bvars, op, stack, now, stub, result, target>>

\* the context is derived from context.Background() instead of the request's
TimeoutTransportDetached ==
    /\ At("timeout", "down")
    /\ Delegates
    /\ ctxs' = Append(ctxs, WithTimeout(0, stack[pos].timeout))
    /\ req' = [req EXCEPT !.ctx = Len(ctxs) + 1]
    /\ trace' = Append(trace, [Event("timeout", "pre") EXCEPT !.made = Len(ctxs) + 1])
    /\ UNCHANGED <<bvars, op, stack, now, stub, result, target>>

\* ctx, cancel := context.WithTimeout(httpReq.Context(), timeout);
\* httpReq = httpReq.WithContext(ctx); next.RoundTrip(httpReq)
TimeoutTransportCall ==
    /\ At("timeout", "down")
    /\ Delegates
    /\ ctxs' = Append(ctxs, WithTimeout(req.ctx, stack[pos].timeout))
    /\ req' = [req EXCEPT !.ctx = Len(ctxs) + 1]
    /\ trace' = Append(trace, [Event("timeout", "pre") EXCEPT !.made = Len(ctxs) + 1])
    /\ UNCHANGED <<bvars, op, stack, now, stub, result, target>>

\* defer cancel()
TimeoutTransportReturn ==
    /\ At("timeout", "up")
    /\ Returns(ret)
    /\ ctxs' = Cancelled(ctxs, CtxMadeAt(pos))
    /\ trace' = Append(trace, Event("timeout", "post"))
    /\ UNCHANGED <<bvars, op, stack, req, now, stub, result, target>>

\* otelhttp's transport starts a span, whose context derives from the request's
TracingTransportCall ==
    /\ At("tracing", "down")
    /\ Delegates
    /\ ctxs' = Append(ctxs, WithValue(req.ctx))
    /\ req' = [req EXCEPT !.ctx = Len(ctxs) + 1]
    /\ trace' = Append(trace, [Event("tracing", "pre") EXCEPT !.made = Len(ctxs) + 1])
    /\ UNCHANGED <<bvars, op, stack, now, stub, result, target>>

TracingTransportReturn ==
    /\ At("tracing", "up")
    /\ Returns(ret)
    /\ trace' = Append(trace, Event("tracing", "post"))
    /\ UNCHANGED <<bvars, op, stack, req, ctxs, now, stub, result, target>>

\* no request counts as an upgrade
IsUpgradeNever == FALSE

IsUpgrade == HeaderGet(req.header, "Connection") = "Upgrade"

\* LoggingTransport up to next.RoundTrip(httpReq)
LoggingTransportCall ==
    /\ At("logging", "down")
    /\ IF ~IsUpgrade /\ stack[pos].reqBody /\ req.body.kind # "none"
       THEN \E outcome \in ReadOutcomes(req.body) :
              IF outcome = "err"
              THEN /\ Returns([resp |-> NoResp, err |-> ErrBodyRead])
                   /\ req' = [req EXCEPT !.body.closed = TRUE]
                   /\ trace' = Append(trace,
                          [Event("logging", "pre") EXCEPT !.err = ErrBodyRead])
              ELSE /\ Delegates
                   /\ req' = [req EXCEPT !.body = DrainBody(req.body).body]
                   /\ trace' = Append(trace,
                          [Event("logging", "pre") EXCEPT
                              !.data = DrainBody(req.body).data])
       ELSE /\ Delegates
            /\ UNCHANGED req
            /\ trace' = Append(trace, Event("logging", "pre"))
    /\ UNCHANGED <<bvars, op, stack, ctxs, now, stub, result, target>>

\* LoggingTransport after next.RoundTrip(httpReq) returned
LoggingTransportReturn ==
    /\ At("logging", "up")
    /\ IF ret.err # Nil
       THEN /\ Returns([resp |-> NoResp, err |-> ret.err])
            /\ trace' = Append(trace, [Event("logging", "post") EXCEPT !.err = ret.err])
       ELSE IF ~IsUpgrade /\ stack[pos].respBody
       THEN \E outcome \in ReadOutcomes(ret.resp.body) :
              IF outcome = "err"
              THEN /\ Returns([resp |-> NoResp, err |-> ErrBodyRead])
                   /\ trace' = Append(trace,
                          [Event("logging", "post") EXCEPT
                              !.status = ret.resp.status, !.err = ErrBodyRead])
              ELSE /\ Returns([ret EXCEPT !.resp.body = DrainBody(ret.resp.body).body])
                   /\ trace' = Append(trace,
                          [Event("logging", "post") EXCEPT
                              !.status = ret.resp.status,
                              !.data = DrainBody(ret.resp.body).data])
       ELSE /\ Returns(ret)
            /\ trace' = Append(trace,
                   [Event("logging", "post") EXCEPT !.status = ret.resp.status])
    /\ UNCHANGED <<bvars, op, stack, req, ctxs, now, stub, result, target>>

JsonTransportCall ==
    /\ At("json", "down")
    /\ Delegates
    /\ req' = IF HeaderGet(req.header, ContentTypeKey) = ""
              THEN [req EXCEPT !.header = HeaderAdd(@, ContentTypeKey, ContentTypeJson)]
              ELSE req
    /\ trace' = Append(trace, Event("json", "pre"))
    /\ UNCHANGED <<bvars, op, stack, ctxs, now, stub, result, target>>

JsonTransportReturn ==
    /\ At("json", "up")
    /\ Returns(ret)
    /\ trace' = Append(trace, Event("json", "post"))
    /\ UNCHANGED <<bvars, op, stack, req, ctxs, now, stub, result, target>>

\* httpResp.Body as a status-code wrapper leaves it: neither wrapper reads or
\* closes the body of the response next.RoundTrip gave it, accepted or not
Obtained(r) == IF r.err # Nil THEN NoBody ELSE r.resp.body

\* what a status-code wrapper returns for what next.RoundTrip returned
StatusChecked(r, codes, mismatch) ==
    IF r.err # Nil THEN [resp |-> NoResp, err |-> r.err]
    ELSE IF r.resp.status \notin codes THEN [resp |-> NoResp, err |-> mismatch]
    ELSE r

StatusCodeTransportCall ==
    /\ At("statuscode", "down")
    /\ Delegates
    /\ trace' = Append(trace, Event("statuscode", "pre"))
    /\ UNCHANGED <<bvars, op, stack, req, ctxs, now, stub, result, target>>

StatusCodeTransportReturn ==
    /\ At("statuscode", "up")
    /\ Returns(StatusChecked(ret, stack[pos].codes, ErrStatusCode))
    /\ trace' = Append(trace,
           [Event("statuscode", "post") EXCEPT !.status = ret.resp.status,
               !.err = StatusChecked(ret, stack[pos].codes, ErrStatusCode).err,
               !.body = Obtained(ret)])
    /\ UNCHANGED <<bvars, op, stack, req, ctxs, now, stub, result, target>>

StatusCodesTransportCall ==
    /\ At("statuscodes", "down")
    /\ Delegates
    /\ trace' = Append(trace, Event("statuscodes", "pre"))
    /\ UNCHANGED <<bvars, op, stack, req, ctxs, now, stub, result, target>>

StatusCodesTransportReturn ==
    /\ At("statuscodes", "up")
    /\ Returns(StatusChecked(ret, stack[pos].codes, ErrStatusCodes))
    /\ trace' = Append(trace,
           [Event("statuscodes", "post") EXCEPT !.status = ret.resp.status,
               !.err = StatusChecked(ret, stack[pos].codes, ErrStatusCodes).err,
               !.body = Obtained(ret)])
    /\ UNCHANGED <<bvars, op, stack, req, ctxs, now, stub, result, target>>

----------------------------------------------------------------------------
(* The base transport: a stub that observes the request's context *)

Statuses == {200, 404, 500}

BodyOf(status) == IF status = 500 THEN "oops" ELSE "json"

BlockTimes == (1 .. MaxBlock) \cup {-1}

\* the base answers: the body it read of the request is consumed
BaseResponds(status) ==
    /\ At("base", "down")
    /\ Returns([resp |-> [status |-> status, body |-> WireBody(BodyOf(status), req.ctx)],
                err |-> Nil])
    /\ req' = [req EXCEPT !.body.consumed = (req.body.kind # "none")]
    /\ trace' = Append(trace,
           [Event("base", "pre") EXCEPT !.status = status, !.data = ReadAll(req.body)])
    /\ UNCHANGED <<bvars, op, stack, ctxs, now, stub, result, target>>

\* the base fails: a network error, or the context's error when it is done
BaseFails ==
    /\ At("base", "down")
    /\ LET e == IF Done(req.ctx) THEN CtxErr(req.ctx) ELSE ErrNetwork
       IN  /\ Returns([resp |-> NoResp, err |-> e])
           /\ trace' = Append(trace, [Event("base", "pre") EXCEPT !.err = e])
    /\ UNCHANGED <<bvars, op, stack, req, ctxs, now, stub, result, target>>

\* the base blocks, for d seconds or (d = -1) for as long as it is let
BaseBlocks(d) ==
    /\ At("base", "down")
    /\ ~Done(req.ctx)
    /\ pc' = "blocked"
    /\ stub' = [kind |-> "block", status |-> StatusOK,
                until |-> IF d = -1 THEN -1 ELSE now + d]
    /\ trace' = Append(trace, Event("base", "pre"))
    /\ UNCHANGED <<bvars, op, stack, pos, req, ret, ctxs, now, result, target>>

\* a second passes while the base blocks
Tick ==
    /\ pc = "blocked"
    /\ now < MaxTime
    /\ ~Done(req.ctx)
    /\ stub.until = -1 \/ now < stub.until
    /\ now' = now + 1
    /\ ctxs' = Expired(ctxs, now + 1, DOMAIN ctxs)
    /\ UNCHANGED <<bvars, pc, op, stack, pos, req, ret, stub, trace, result, target>>

\* the blocked base sees its context done and returns the context's error
BaseUnblocksDone ==
    /\ pc = "blocked"
    /\ Done(req.ctx)
    /\ Returns([resp |-> NoResp, err |-> CtxErr(req.ctx)])
    /\ trace' = Append(trace, [Event("base", "post") EXCEPT !.err = CtxErr(req.ctx)])
    /\ UNCHANGED <<bvars, op, stack, req, ctxs, now, stub, result, target>>

\* the blocked base gets its answer
BaseUnblocksAnswer ==
    /\ pc = "blocked"
    /\ stub.until # -1 /\ now >= stub.until
    /\ Returns([resp |-> [status |-> stub.status,
                          body |-> WireBody(BodyOf(stub.status), req.ctx)],
                err |-> Nil])
    /\ req' = [req EXCEPT !.body.consumed = (req.body.kind # "none")]
    /\ trace' = Append(trace, [Event("base", "post") EXCEPT !.status = stub.status])
    /\ UNCHANGED <<bvars, op, stack, ctxs, now, stub, result, target>>

\* the caller cancels the context it passed
CancelParent ==
    /\ pc \in {"down", "up", "blocked"}
    /\ ~Done(1)
    /\ ctxs' = Cancelled(ctxs, 1)
    /\ UNCHANGED <<bvars, pc, op, stack, pos, req, ret, now, stub, trace, result, target>>

----------------------------------------------------------------------------
(* Do, DoWithTransport, DoWithClient (src/httpx.go:546-588) *)

\* return err, before anything was sent
Fails(err) ==
    /\ pc' = "done"
    /\ result' = [NoResult EXCEPT !.err = err]
    /\ UNCHANGED <<stack, pos, req>>

\* json.NewDecoder(r).Decode(obj) on the bytes read
CodecDecode(codec, data) ==
    IF data = "json" THEN [value |-> data, err |-> Nil]
    ELSE IF data = "" THEN [value |-> "", err |-> "EOF"]
    ELSE [value |-> "", err |-> ErrDecode]

\* DoWithClient up to client.Do(httpReq): the request is built and handed to
\* the client's transport
DoWithClientBody(b, client) ==
    IF builders[b].err # Nil THEN Fails(builders[b].err)
    ELSE LET r == BuildHTTPReq(b, 1)
         IN  IF r.err # Nil THEN Fails(r.err)
             ELSE /\ pc' = "down" /\ pos' = 1 /\ stack' = client /\ req' = r.req
                  /\ result' = [NoResult EXCEPT !.built = TRUE]

\* client := &http.Client{Transport: transport}
DoWithTransportBody(b, transport) ==
    IF builders[b].err # Nil THEN Fails(builders[b].err)
    ELSE DoWithClientBody(b, transport)

DoBody(b) ==
    IF builders[b].err # Nil THEN Fails(builders[b].err)
    ELSE LET t == BuildTransport(b)
         IN  IF t.err # Nil THEN Fails(t.err)
             ELSE DoWithTransportBody(b, t.transport)

Enters(name, b) ==
    /\ pc = "idle"
    /\ op' = [name |-> name, b |-> b, args |-> <<>>]
    /\ ctxs' = <<CallerCtx>>
    /\ UNCHANGED <<bvars, ret, now, stub, trace, target>>

Do(b) == Enters("Do", b) /\ DoBody(b)

DoWithTransport(b, transport) ==
    Enters("DoWithTransport", b) /\ DoWithTransportBody(b, transport)

DoWithClient(b, client) == Enters("DoWithClient", b) /\ DoWithClientBody(b, client)

\* a caller's b.BuildHTTPReq(ctx)
CallBuildHTTPReq(b) ==
    /\ Enters("BuildHTTPReq", b)
    /\ LET r == BuildHTTPReq(b, 1)
       IN  /\ pc' = "done" /\ req' = r.req
           /\ result' = [NoResult EXCEPT !.err = r.err, !.built = (r.err = Nil)]
    /\ UNCHANGED <<stack, pos>>

\* a caller's b.BuildTransport(ctx)
CallBuildTransport(b) ==
    /\ Enters("BuildTransport", b)
    /\ LET t == BuildTransport(b)
       IN  /\ pc' = "done" /\ stack' = t.transport
           /\ result' = [NoResult EXCEPT !.err = t.err]
    /\ UNCHANGED <<req, pos>>

\* the codec's error is dropped
DecodeFailureSwallowed(outcome, d) == Nil

\* err := b.codec.Decode(httpResp.Body, b.resp): the error of reading the body,
\* or of decoding what was read
DecodeFailure(outcome, d) == IF outcome = "err" THEN ErrBodyRead ELSE d.err

\* client.Do returned to DoWithClient: its error comes wrapped in a *url.Error;
\* else the body is decoded into the target, if there is one, and closed
ClientDoReturned ==
    /\ pc = "up" /\ pos = 0 /\ op.b # 0
    /\ pc' = "done"
    /\ IF ret.err # Nil
       THEN /\ result' = [result EXCEPT !.err = ret.err, !.wrapped = TRUE]
            /\ UNCHANGED <<target, ret>>
       ELSE IF builders[op.b].resp # Nil
       THEN \E outcome \in ReadOutcomes(ret.resp.body) :
              LET d == CodecDecode(builders[op.b].codec, ReadAll(ret.resp.body))
              IN  /\ ret' = [ret EXCEPT !.resp.body.consumed = TRUE,
                                        !.resp.body.closed = TRUE]
                  /\ IF DecodeFailure(outcome, d) # Nil
                     THEN /\ result' = [result EXCEPT !.err = DecodeFailure(outcome, d)]
                          /\ UNCHANGED target
                     ELSE target' = d.value /\ UNCHANGED result
       ELSE /\ ret' = [ret EXCEPT !.resp.body.closed = TRUE]
            /\ UNCHANGED <<result, target>>
    /\ UNCHANGED <<bvars, op, stack, pos, req, ctxs, now, stub, trace>>

----------------------------------------------------------------------------
(* A request sent through DefaultTransportWrapper(base) by a caller *)

CallerContentTypes == {"", "text/xml"}

\* (a program that takes this path makes no builder)
DefaultRoundTrip(contentType) ==
    /\ pc = "idle"
    /\ builders = <<>>
    /\ op' = [name |-> "DefaultTransportWrapper", b |-> 0, args |-> <<>>]
    /\ ctxs' = <<CallerCtx>>
    /\ stack' = DefaultTransportWrapper(BaseTransport(1))
    /\ req' = [NoReq EXCEPT !.ctx = 1, !.method = "POST", !.url = "/a",
                 !.header = IF contentType = "" THEN EmptyHeader
                            ELSE HeaderSet(EmptyHeader, ContentTypeKey, contentType),
                 !.body = BytesBody("payload"), !.data = "payload"]
    /\ pc' = "down" /\ pos' = 1
    /\ UNCHANGED <<bvars, ret, now, stub, trace, result, target>>

\* the transport returned to the caller that used it directly
RoundTripReturned ==
    /\ pc = "up" /\ pos = 0 /\ op.b = 0 /\ stack[1].kind = "func"
    /\ pc' = "done"
    /\ result' = [result EXCEPT !.err = ret.err]
    /\ UNCHANGED <<bvars, op, stack, pos, req, ret, ctxs, now, stub, trace, target>>

----------------------------------------------------------------------------
(* The execution path as a program: one builder, configured by chained     *)
(* calls, on which one entry point is called                                *)

DoTimeouts == {-1, 0, 2}

\* the configurations under test: every combination of the settings the
\* execution path reads
DoBuilders ==
    {[NewBuilder EXCEPT !.method = "POST", !.path = "/a", !.baseURL = "http://h",
          !.transport = "stub", !.err = e, !.contentType = ct,
          !.loggingReq = lq, !.loggingResp = lp, !.tracing = tr, !.timeout = to,
          !.expectedStatusCodes = codes, !.resp = rs, !.req = rq] :
        e \in {Nil, ErrQuery}, ct \in {"", ContentTypeJson, "text/xml"},
        lq \in BOOLEAN, lp \in BOOLEAN, tr \in BOOLEAN, to \in DoTimeouts,
        codes \in {0, 1, 2}, rs \in {Nil, "target"},
        rq \in {Nil, "payload", "unencodable"}}

InitDo ==
    /\ \/ \E bb \in DoBuilders : builders = <<bb>> /\ parent = <<0>>
       \/ builders = <<>> /\ parent = <<>>
    /\ urlValuesObjs = <<EmptyValues>>
    /\ headerObjs = <<EmptyHeader>>
    /\ codesObjs = <<<<StatusOK>>, <<StatusOK, 404>>>>
    /\ CallIdle

NextDo ==
    \/ \E b \in DOMAIN builders : Do(b)
    \/ \E b \in DOMAIN builders : DoWithTransport(b, BaseTransport(3))
    \/ \E b \in DOMAIN builders : DoWithClient(b, BaseTransport(3))
    \/ \E b \in DOMAIN builders : CallBuildHTTPReq(b)
    \/ \E b \in DOMAIN builders : CallBuildTransport(b)
    \/ \E ct \in CallerContentTypes : DefaultRoundTrip(ct)
    \/ TransportFuncCall
    \/ TransportFuncReturn
    \/ TimeoutTransportCall
    \/ TimeoutTransportReturn
    \/ TracingTransportCall
    \/ TracingTransportReturn
    \/ LoggingTransportCall
    \/ LoggingTransportReturn
    \/ JsonTransportCall
    \/ JsonTransportReturn
    \/ StatusCodeTransportCall
    \/ StatusCodeTransportReturn
    \/ StatusCodesTransportCall
    \/ StatusCodesTransportReturn
    \/ \E status \in Statuses : BaseResponds(status)
    \/ BaseFails
    \/ \E d \in BlockTimes : BaseBlocks(d)
    \/ Tick
    \/ BaseUnblocksDone
    \/ BaseUnblocksAnswer
    \/ CancelParent
    \/ ClientDoReturned
    \/ RoundTripReturned

SpecDo == InitDo /\ [][NextDo]_vars

\* what the Go runtime keeps doing once a call is under way: the running
\* goroutine takes its next step, the clock advances and timers fire
DoProgress ==
    \/ TransportFuncCall \/ TransportFuncReturn
    \/ TimeoutTransportCall \/ TimeoutTransportReturn
    \/ TracingTransportCall \/ TracingTransportReturn
    \/ LoggingTransportCall \/ LoggingTransportReturn
    \/ JsonTransportCall \/ JsonTransportReturn
    \/ StatusCodeTransportCall \/ StatusCodeTransportReturn
    \/ StatusCodesTransportCall \/ StatusCodesTransportReturn
    \/ Tick \/ BaseUnblocksDone \/ BaseUnblocksAnswer
    \/ ClientDoReturned \/ RoundTripReturned

\* the same program, with no fairness on what the caller or the server may
\* or may not do (enter a call, cancel, answer, fail, block)
SpecDoFair == InitDo /\ [][NextDo]_vars /\ WF_vars(DoProgress)

----------------------------------------------------------------------------
(* WrapTransport and WrapHandler around wrappers that record when they run *)

\* a TransportWrapper whose RoundTrip records, delegates, then records
TransportProbe(i) == [Layer("probe") EXCEPT !.id = i]

\* a HandlerWrapper whose ServeHTTP records, delegates, then records
HandlerProbe(i) == [Layer("hprobe") EXCEPT !.id = i]

\* the closure WrapHandler returns around next
HandlerFunc == Layer("hfunc")

BaseHandler == <<Layer("handler")>>

WrapHandler(next, wrappers) == Wrapped(HandlerFunc, WrapEach(next, wrappers))

TransportProbeCall ==
    /\ At("probe", "down")
    /\ Delegates
    /\ trace' = Append(trace, Event("probe", "pre"))
    /\ UNCHANGED <<bvars, op, stack, req, ctxs, now, stub, result, target>>

TransportProbeReturn ==
    /\ At("probe", "up")
    /\ Returns(ret)
    /\ trace' = Append(trace, Event("probe", "post"))
    /\ UNCHANGED <<bvars, op, stack, req, ctxs, now, stub, result, target>>

\* next.ServeHTTP(w, httpReq)
HandlerFuncCall ==
    /\ At("hfunc", "down")
    /\ Delegates
    /\ trace' = Append(trace, Event("hfunc", "pre"))
    /\ UNCHANGED <<bvars, op, stack, req, ctxs, now, stub, result, target>>

HandlerFuncReturn ==
    /\ At("hfunc", "up")
    /\ Returns(ret)
    /\ trace' = Append(trace, Event("hfunc", "post"))
    /\ UNCHANGED <<bvars, op, stack, req, ctxs, now, stub, result, target>>

HandlerProbeCall ==
    /\ At("hprobe", "down")
    /\ Delegates
    /\ trace' = Append(trace, Event("hprobe", "pre"))
    /\ UNCHANGED <<bvars, op, stack, req, ctxs, now, stub, result, target>>

HandlerProbeReturn ==
    /\ At("hprobe", "up")
    /\ Returns(ret)
    /\ trace' = Append(trace, Event("hprobe", "post"))
    /\ UNCHANGED <<bvars, op, stack, req, ctxs, now, stub, result, target>>

\* the base handler reads the request's body and writes a response with the
\* given status to the writer it was handed
BaseHandlerServes(status) ==
    /\ At("handler", "down")
    /\ Returns([resp |-> [status |-> status, body |-> BytesBody(BodyOf(status))],
                err |-> Nil])
    /\ req' = [req EXCEPT !.body.consumed = (req.body.kind # "none")]
    /\ trace' = Append(trace,
           [Event("handler", "pre") EXCEPT !.status = status, !.data = ReadAll(req.body)])
    /\ UNCHANGED <<bvars, op, stack, ctxs, now, stub, result, target>>

\* the handler returned to the server that called it
ServeHTTPReturned ==
    /\ pc = "up" /\ pos = 0 /\ op.b = 0 /\ stack[1].kind = "hfunc"
    /\ pc' = "done"
    /\ UNCHANGED <<bvars, op, stack, pos, req, ret, ctxs, now, stub, trace, result, target>>

MaxWrappers == 3

\* the wrapper lists tried: up to MaxWrappers distinct probes, in any order
WrapperLists ==
    {ws \in UNION {[1 .. n -> 1 .. MaxWrappers] : n \in 0 .. MaxWrappers} :
        \A i, j \in DOMAIN ws : i # j => ws[i] # ws[j]}

\* WrapTransport(base, w1, ..., wn).RoundTrip(httpReq)
CallWrapTransport(ws) ==
    /\ pc = "idle"
    /\ op' = [name |-> "WrapTransport", b |-> 0, args |-> ws]
    /\ ctxs' = <<CallerCtx>>
    /\ stack' = WrapTransport(BaseTransport(1),
                              [k \in DOMAIN ws |-> TransportProbe(ws[k])])
    /\ req' = [NoReq EXCEPT !.ctx = 1, !.method = "GET", !.url = "/a"]
    /\ pc' = "down" /\ pos' = 1
    /\ UNCHANGED <<bvars, ret, now, stub, trace, result, target>>

\* WrapHandler(base, w1, ..., wn).ServeHTTP(w, httpReq)
CallWrapHandler(ws) ==
    /\ pc = "idle"
    /\ op' = [name |-> "WrapHandler", b |-> 0, args |-> ws]
    /\ ctxs' = <<CallerCtx>>
    /\ stack' = WrapHandler(BaseHandler, [k \in DOMAIN ws |-> HandlerProbe(ws[k])])
    /\ req' = [NoReq EXCEPT !.ctx = 1, !.method = "GET", !.url = "/a"]
    /\ pc' = "down" /\ pos' = 1
    /\ UNCHANGED <<bvars, ret, now, stub, trace, result, target>>

InitWrap ==
    /\ builders = <<>> /\ parent = <<>>
    /\ urlValuesObjs = <<EmptyValues>>
    /\ headerObjs = <<EmptyHeader>>
    /\ codesObjs = <<<<StatusOK>>>>
    /\ CallIdle

NextWrap ==
    \/ \E ws \in WrapperLists : CallWrapTransport(ws)
    \/ \E ws \in WrapperLists : CallWrapHandler(ws)
    \/ TransportFuncCall
    \/ TransportFuncReturn
    \/ TransportProbeCall
    \/ TransportProbeReturn
    \/ \E status \in Statuses : BaseResponds(status)
    \/ BaseFails
    \/ RoundTripReturned
    \/ HandlerFuncCall
    \/ HandlerFuncReturn
    \/ HandlerProbeCall
    \/ HandlerProbeReturn
    \/ \E status \in Statuses : BaseHandlerServes(status)
    \/ ServeHTTPReturned

SpecWrap == InitWrap /\ [][NextWrap]_vars

----------------------------------------------------------------------------
(* The logging wrappers alone: LoggingTransport around a base transport and *)
(* LoggingHandler (src/handler_wrapper.go:73-118) around a base handler     *)

LoggingHandler(loggingReqBody, loggingRespBody) ==
    [Layer("hlogging") EXCEPT !.reqBody = loggingReqBody, !.respBody = loggingRespBody]

\* LoggingHandler up to next.ServeHTTP: not an upgrade, the writer is wrapped
\* and the body drained if it is to be logged; an upgrade, nothing is touched
LoggingHandlerCall ==
    /\ At("hlogging", "down")
    /\ IF ~IsUpgrade
       THEN IF stack[pos].reqBody /\ req.body.kind # "none"
            THEN \E outcome \in ReadOutcomes(req.body) :
                   IF outcome = "err"
                   THEN /\ Returns(NoRet)
                        /\ req' = [req EXCEPT !.body.closed = TRUE, !.w = "wrapped"]
                        /\ trace' = Append(trace,
                               [Event("hlogging", "pre") EXCEPT !.err = ErrBodyRead])
                   ELSE /\ Delegates
                        /\ req' = [req EXCEPT !.body = DrainBody(req.body).body,
                                              !.w = "wrapped"]
                        /\ trace' = Append(trace,
                               [Event("hlogging", "pre") EXCEPT
                                   !.data = DrainBody(req.body).data])
            ELSE /\ Delegates
                 /\ req' = [req EXCEPT !.w = "wrapped"]
                 /\ trace' = Append(trace, Event("hlogging", "pre"))
       ELSE /\ Delegates
            /\ UNCHANGED req
            /\ trace' = Append(trace, Event("hlogging", "pre"))
    /\ UNCHANGED <<bvars, op, stack, ctxs, now, stub, result, target>>

\* the deferred log after next.ServeHTTP: what the wrapped writer captured,
\* if the response body is to be logged
LoggingHandlerReturn ==
    /\ At("hlogging", "up")
    /\ Returns(ret)
    /\ trace' = Append(trace,
           IF ~IsUpgrade /\ stack[pos].respBody
           THEN [Event("hlogging", "post") EXCEPT
                    !.status = ret.resp.status, !.data = ret.resp.body.data]
           ELSE Event("hlogging", "post"))
    /\ UNCHANGED <<bvars, op, stack, req, ctxs, now, stub, result, target>>

\* the Connection headers tried
ConnectionValues == {"", "Upgrade", "keep-alive"}

\* a request with a streamed body, or with none
LoggedBodies == {NoBody, WireBody("payload", 1)}

LoggedReq(connection, body) ==
    [NoReq EXCEPT !.ctx = 1, !.method = "POST", !.url = "/a",
        !.header = IF connection = "" THEN EmptyHeader
                   ELSE HeaderSet(EmptyHeader, "Connection", connection),
        !.body = body, !.data = body.data]

\* WrapTransport(base, LoggingTransport(lq, lp)).RoundTrip(httpReq)
CallLoggingTransport(lq, lp, connection, body) ==
    /\ pc = "idle"
    /\ op' = [name |-> "LoggingTransport", b |-> 0, args |-> <<>>]
    /\ ctxs' = <<CallerCtx>>
    /\ stack' = WrapTransport(BaseTransport(1), <<LoggingTransport(lq, lp)>>)
    /\ req' = LoggedReq(connection, body)
    /\ pc' = "down" /\ pos' = 1
    /\ UNCHANGED <<bvars, ret, now, stub, trace, result, target>>

\* WrapHandler(base, LoggingHandler(lq, lp)).ServeHTTP(w, httpReq)
CallLoggingHandler(lq, lp, connection, body) ==
    /\ pc = "idle"
    /\ op' = [name |-> "LoggingHandler", b |-> 0, args |-> <<>>]
    /\ ctxs' = <<CallerCtx>>
    /\ stack' = WrapHandler(BaseHandler, <<LoggingHandler(lq, lp)>>)
    /\ req' = [LoggedReq(connection, body) EXCEPT !.w = "w"]
    /\ pc' = "down" /\ pos' = 1
    /\ UNCHANGED <<bvars, ret, now, stub, trace, result, target>>

InitLogging ==
    /\ builders = <<>> /\ parent = <<>>
    /\ urlValuesObjs = <<EmptyValues>>
    /\ headerObjs = <<EmptyHeader>>
    /\ codesObjs = <<<<StatusOK>>>>
    /\ CallIdle

NextLogging ==
    \/ \E lq \in BOOLEAN, lp \in BOOLEAN, cn \in ConnectionValues, body \in LoggedBodies :
           CallLoggingTransport(lq, lp, cn, body)
    \/ \E lq \in BOOLEAN, lp \in BOOLEAN, cn \in ConnectionValues, body \in LoggedBodies :
           CallLoggingHandler(lq, lp, cn, body)
    \/ TransportFuncCall
    \/ TransportFuncReturn
    \/ LoggingTransportCall
    \/ LoggingTransportReturn
    \/ \E status \in Statuses : BaseResponds(status)
    \/ BaseFails
    \/ RoundTripReturned
    \/ HandlerFuncCall
    \/ HandlerFuncReturn
    \/ LoggingHandlerCall
    \/ LoggingHandlerReturn
    \/ \E status \in Statuses : BaseHandlerServes(status)
    \/ ServeHTTPReturned
    \/ CancelParent

SpecLogging == InitLogging /\ [][NextLogging]_vars

----------------------------------------------------------------------------
(* BuildHTTPReq on a builder whose path carries a query string and which   *)
(* has accumulated query values of its own                                  *)

MaxQueryValues == 2

QueryVals == {"a", "z"}

\* the values one key may have accumulated
QueryValueLists ==
    UNION {[1 .. n -> QueryVals] : n \in 0 .. MaxQueryValues}

\* b.urlValues after some WithQueryString calls
QuerySets == [QKeys -> QueryValueLists]

InitQuery ==
    /\ \E path \in QueryPaths \cup {"/a"} :
           builders = <<[NewBuilder EXCEPT !.method = "GET", !.path = path,
                                           !.baseURL = "http://h"]>>
    /\ parent = <<0>>
    /\ urlValuesObjs \in {<<q>> : q \in QuerySets}
    /\ headerObjs = <<EmptyHeader>>
    /\ codesObjs = <<<<>>>>
    /\ CallIdle

NextQuery ==
    \/ \E b \in DOMAIN builders, key \in QKeys :
           pc = "idle" /\ WithQueryString(b, key, "a")
    \/ \E b \in DOMAIN builders : CallBuildHTTPReq(b)

SpecQuery == InitQuery /\ [][NextQuery]_vars

----------------------------------------------------------------------------
(* BuildHTTPReq on a builder that has accumulated headers of its own *)

MaxHeaderValues == 2

ExplicitContentTypes == {"text/xml", "text/plain"}

ExplicitValues == {"h1", "h2"}

\* the values one key may have accumulated, drawn from vals
HeaderValueLists(vals) ==
    UNION {[1 .. n -> vals] : n \in 0 .. MaxHeaderValues}

\* b.header after some WithHeader / WithHeaders calls
HeaderSets ==
    {[EmptyHeader EXCEPT !["X-A"] = xa, ![ContentTypeKey] = ct] :
        xa \in HeaderValueLists(ExplicitValues),
        ct \in HeaderValueLists(ExplicitContentTypes)}

InitHeaders ==
    /\ \E ct \in {"", ContentTypeJson, "text/xml"} :
           builders = <<[NewBuilder EXCEPT !.method = "GET", !.path = "/a",
                                           !.baseURL = "http://h",
                                           !.contentType = ct]>>
    /\ parent = <<0>>
    /\ urlValuesObjs = <<EmptyValues>>
    /\ headerObjs \in {<<h>> : h \in HeaderSets}
    /\ codesObjs = <<<<>>>>
    /\ CallIdle

NextHeaders ==
    \/ \E b \in DOMAIN builders, key \in {"x-a", "content-type"} :
           pc = "idle" /\ WithHeader(b, key, "h1")
    \/ \E b \in DOMAIN builders :
           pc = "idle" /\ WithHeaders(b, [k \in {"x-a"} |-> <<"h1", "h2">>])
    \/ \E b \in DOMAIN builders : CallBuildHTTPReq(b)

SpecHeaders == InitHeaders /\ [][NextHeaders]_vars

----------------------------------------------------------------------------
(* StatusJsonCodec (src/unnamed/part_001:48-82): the body is a JSON document *)
(* {"code": ..., "msg": ..., "data": ...}, read into a statusResp whose Data  *)
(* is the caller's target                                                     *)

\* the documents a server may send: whether the text is JSON at all, its
\* code and msg, and its data: none, a value of the target's type, or a
\* value of another type
Envelopes ==
    [wellFormed : BOOLEAN, code : {-1, 0, 1, 500}, msg : {"", "denied"},
     data : {"absent", "value", "mistyped"}]

ErrSyntax == "invalid character"

ErrUnmarshalType == "json: cannot unmarshal string into Go value"

\* json.NewDecoder(r).Decode(resp): the text is scanned to its end before any
\* field is stored; data goes into the value resp.Data points to
JsonDecodeEnvelope(e, obj) ==
    IF ~e.wellFormed THEN [obj |-> obj, code |-> 0, msg |-> "", err |-> ErrSyntax]
    ELSE [obj  |-> IF e.data = "value" THEN "value" ELSE obj,
          code |-> e.code, msg |-> e.msg,
          err  |-> IF e.data = "mistyped" THEN ErrUnmarshalType ELSE Nil]

\* fmt.Errorf("unexpected code:%d,msg:%s", resp.Code, resp.Msg)
UnexpectedCode(code, msg) == "unexpected code:" \o ToString(code) \o ",msg:" \o msg

\* every code counts as success
StatusJsonCodecDecodeAnyCode(e, obj) ==
    LET resp == JsonDecodeEnvelope(e, obj)
    IN  [obj |-> resp.obj, err |-> resp.err]

\* StatusJsonCodec.Decode(r, obj)
StatusJsonCodecDecode(e, obj) ==
    LET resp == JsonDecodeEnvelope(e, obj)
    IN  IF resp.err # Nil THEN [obj |-> resp.obj, err |-> resp.err]
        ELSE IF resp.code # 0
        THEN [obj |-> resp.obj, err |-> UnexpectedCode(resp.code, resp.msg)]
        ELSE [obj |-> resp.obj, err |-> Nil]

\* what the caller's target holds before the call
TargetsBefore == {"", "old", "value"}

\* a caller's codec.Decode(body, obj), the body and obj being op.args
CallStatusJsonCodecDecode ==
    /\ pc = "idle" /\ op.name = Nil /\ Len(op.args) = 1
    /\ LET r == StatusJsonCodecDecode(op.args[1], target)
       IN  /\ target' = r.obj
           /\ result' = [NoResult EXCEPT !.err = r.err]
    /\ op' = [op EXCEPT !.name = "StatusJsonCodec.Decode"]
    /\ pc' = "done"
    /\ UNCHANGED <<bvars, stack, pos, req, ret, ctxs, now, stub, trace>>

InitCodec ==
    /\ builders = <<>> /\ parent = <<>>
    /\ urlValuesObjs = <<>> /\ headerObjs = <<>> /\ codesObjs = <<>>
    /\ retriable = NoRetriable /\ calls = <<>> /\ singletons = PackageVars /\ ctxs = <<>>
    /\ pc = "idle" /\ stack = <<>> /\ pos = 0
    /\ req = NoReq /\ ret = NoRet /\ now = 0 /\ stub = NoStub
    /\ trace = <<>> /\ result = NoResult
    /\ \E e \in Envelopes : op = [NoOp EXCEPT !.args = <<e>>]
    /\ target \in TargetsBefore

NextCodec == CallStatusJsonCodecDecode

SpecCodec == InitCodec /\ [][NextCodec]_vars

----------------------------------------------------------------------------
(* DrainBody / drainBody called on a stream, and the reads that follow *)

DrainContents == {"", "payload", "json", "oops"}

\* streams nobody has read yet: off the wire under the caller's context, or
\* over bytes in memory
DrainStreams ==
    {WireBody(d, 1) : d \in DrainContents} \cup {BytesBody(d) : d \in DrainContents}

\* a read of a stream by the caller, as an event
ReadEvent(stream, data) ==
    [layer |-> stream, phase |-> "read", pos |-> 0, id |-> 0, at |-> now, ctx |-> 0,
     made |-> 0, status |-> 0, data |-> data, err |-> Nil, w |-> Nil, body |-> NoBody]

\* the caller's context is cancelled before the stream is read
CancelBeforeDrain ==
    /\ pc = "idle" /\ ~Done(1)
    /\ ctxs' = Cancelled(ctxs, 1)
    /\ UNCHANGED <<bvars, pc, op, stack, pos, req, ret, now, stub, trace, result, target>>

\* data, body, err := DrainBody(src) (exported is FALSE for drainBody): src is
\* req.body, the new stream is ret.resp.body, the bytes are target
CallDrainBody(exported) ==
    /\ pc = "idle"
    /\ op' = [NoOp EXCEPT !.name = IF exported THEN "DrainBody" ELSE "drainBody"]
    /\ pc' = "done"
    /\ \E outcome \in ReadOutcomes(req.body) :
          LET r == IF exported THEN DrainBody(req.body) ELSE drainBody(req.body)
          IN  IF outcome = "err"
              THEN /\ req' = [req EXCEPT !.body.closed = TRUE]
                   /\ result' = [NoResult EXCEPT !.err = ErrBodyRead]
                   /\ UNCHANGED <<ret, target>>
              ELSE /\ req' = [req EXCEPT !.body = r.src]
                   /\ ret' = [ret EXCEPT !.resp.body = r.body]
                   /\ target' = r.data
                   /\ result' = NoResult
    /\ UNCHANGED <<bvars, stack, pos, ctxs, now, stub, trace>>

\* the caller reads the stream it got back
ReadReplay ==
    /\ pc = "done" /\ result.err = Nil /\ ~ret.resp.body.consumed
    /\ trace' = Append(trace, ReadEvent("replay", ReadAll(ret.resp.body)))
    /\ ret' = [ret EXCEPT !.resp.body.consumed = TRUE]
    /\ UNCHANGED <<bvars, pc, op, stack, pos, req, ctxs, now, stub, result, target>>

\* somebody reads the original stream again
ReadOriginal ==
    /\ pc = "done" /\ Len(trace) < 2
    /\ \A k \in DOMAIN trace : trace[k].layer # "original"
    /\ trace' = Append(trace, ReadEvent("original", ReadAll(req.body)))
    /\ UNCHANGED <<bvars, pc, op, stack, pos, req, ret, ctxs, now, stub, result, target>>

InitDrain ==
    /\ builders = <<>> /\ parent = <<>>
    /\ urlValuesObjs = <<>> /\ headerObjs = <<>> /\ codesObjs = <<>>
    /\ retriable = NoRetriable /\ calls = <<>> /\ singletons = PackageVars
    /\ ctxs = <<CallerCtx>>
    /\ pc = "idle" /\ op = NoOp /\ stack = <<>> /\ pos = 0
    /\ \E s \in DrainStreams : req = [NoReq EXCEPT !.body = s, !.data = s.data]
    /\ ret = NoRet /\ now = 0 /\ stub = NoStub
    /\ trace = <<>> /\ result = NoResult /\ target = ""

NextDrain ==
    \/ CancelBeforeDrain
    \/ \E exported \in BOOLEAN : CallDrainBody(exported)
    \/ ReadReplay
    \/ ReadOriginal

SpecDrain == InitDrain /\ [][NextDrain]_vars

----------------------------------------------------------------------------
(* Interceptors (src/interceptor.go) and the option-based request path do   *)
(* (src/transport.go:212-263). An interceptor chain is the sequence of its   *)
(* interceptors; the chain being run is stack, pos the interceptor to run    *)
(* next. calls holds the locals of do.                                       *)

MaxInterceptors == 2

\* interceptors a caller may pass: one that returns nil, one that returns an
\* error of its own, LoggingReqInterceptor / LoggingRespInterceptor, and
\* StatusCodeRespInterceptor(200)
ReqInterceptorKinds == {"pass", "fail", "logging"}

RespInterceptorKinds == {"pass", "fail", "logging", "status"}

Chains(kinds) == UNION {[1 .. n -> kinds] : n \in 0 .. MaxInterceptors}

ErrInterceptor(k) == "interceptor " \o ToString(k) \o " failed"

ErrStatusInterceptor == "expected statuscode:200"

\* an interceptor, the client or the codec ran: what it was given to read,
\* and the error it returned
Ran(layer, id, data, err) ==
    [ReadEvent(layer, data) EXCEPT !.phase = "run", !.id = id, !.err = err]

\* the loop goes on whatever the interceptor returned
ChainGoesOnAlways(err) == TRUE

\* if err := reqInterceptor(httpReq); err != nil { return ... }
ChainGoesOn(err) == err = Nil

\* what the interceptor of the kind returns for the response at hand
InterceptorErr(kind, k) ==
    CASE kind = "fail" -> ErrInterceptor(k)
      [] kind = "status" /\ ret.resp.status # StatusOK -> ErrStatusInterceptor
      [] OTHER -> Nil

\* the locals of do: the response target given, the bytes drained of the
\* response, the interceptors of the options
DoLocals(reqInterceptor, respInterceptor, resp) ==
    [reqInterceptor |-> reqInterceptor, respInterceptor |-> respInterceptor,
     resp |-> resp, respData |-> ""]

\* the response keeps the stream that was drained
BodyLeftDrained(drained) == drained.src

\* httpResp.Body = respBody
BodyHandedOn(drained) == drained.body

\* one interceptor of a request chain runs; LoggingReqInterceptor drains the
\* body and puts a reader of its bytes in its place
ReqInterceptorRuns ==
    /\ pc = "reqInterceptor" /\ pos \in DOMAIN stack
    /\ LET err == InterceptorErr(stack[pos], pos)
       IN  /\ trace' = Append(trace, Ran("reqInterceptor", pos, ReadAll(req.body), err))
           /\ req' = IF stack[pos] = "logging" /\ req.body.kind # "none"
                     THEN [req EXCEPT !.body = drainBody(req.body).body]
                     ELSE req
           /\ IF ChainGoesOn(err)
              THEN pc' = pc /\ pos' = pos + 1 /\ UNCHANGED result
              ELSE pc' = "done" /\ pos' = pos /\ result' = [result EXCEPT !.err = err]
    /\ UNCHANGED <<bvars, op, stack, ret, ctxs, now, stub, target>>

\* the request chain returns nil: to its caller, or to do, which goes on to
\* options.client.Do(httpReq)
ReqChainReturns ==
    /\ pc = "reqInterceptor" /\ pos > Len(stack)
    /\ pc' = IF op.name = "do" THEN "send" ELSE "done"
    /\ pos' = 0
    /\ UNCHANGED <<bvars, op, stack, req, ret, ctxs, now, stub, trace, result, target>>

\* options.client.Do answers; do drains the body and puts a reader of the
\* bytes in its place before the response interceptor runs
ClientResponds(status) ==
    /\ pc = "send"
    /\ LET drained == drainBody(WireBody(BodyOf(status), 1))
       IN  /\ ret' = [resp |-> [status |-> status, body |-> BodyHandedOn(drained)],
                      err |-> Nil]
           /\ calls' = <<[calls[1] EXCEPT !.respData = drained.data]>>
    /\ trace' = Append(trace, [Ran("client", 0, ReadAll(req.body), Nil) EXCEPT
                                  !.status = status])
    /\ req' = [req EXCEPT !.body.consumed = (req.body.kind # "none")]
    /\ pc' = "respInterceptor" /\ pos' = 1 /\ stack' = calls[1].respInterceptor
    /\ UNCHANGED <<builders, urlValuesObjs, headerObjs, codesObjs, parent, retriable, singletons,
                   op, ctxs, now, stub, result, target>>

\* options.client.Do fails
ClientFails ==
    /\ pc = "send"
    /\ trace' = Append(trace, Ran("client", 0, "", ErrNetwork))
    /\ pc' = "done"
    /\ result' = [result EXCEPT !.err = ErrNetwork]
    /\ UNCHANGED <<bvars, op, stack, pos, req, ret, ctxs, now, stub, target>>

\* one interceptor of a response chain runs
RespInterceptorRuns ==
    /\ pc = "respInterceptor" /\ pos \in DOMAIN stack
    /\ LET err == InterceptorErr(stack[pos], pos)
       IN  /\ trace' = Append(trace,
                  Ran("respInterceptor", pos, ReadAll(ret.resp.body), err))
           /\ ret' = IF stack[pos] = "logging"
                     THEN [ret EXCEPT !.resp.body = drainBody(ret.resp.body).body]
                     ELSE ret
           /\ IF ChainGoesOn(err)
              THEN pc' = pc /\ pos' = pos + 1 /\ UNCHANGED result
              ELSE pc' = "done" /\ pos' = pos /\ result' = [result EXCEPT !.err = err]
    /\ UNCHANGED <<bvars, op, stack, req, ctxs, now, stub, target>>

\* the response chain returns nil: to its caller, or to do, which decodes
\* respData into resp if there is one
RespChainReturns ==
    /\ pc = "respInterceptor" /\ pos > Len(stack)
    /\ pc' = "done" /\ pos' = 0
    /\ IF op.name = "do" /\ calls[1].resp # Nil
       THEN LET d == CodecDecode("JSONCodec", calls[1].respData)
            IN  /\ trace' = Append(trace, Ran("codec", 0, calls[1].respData, d.err))
                /\ IF d.err # Nil
                   THEN result' = [result EXCEPT !.err = d.err] /\ UNCHANGED target
                   ELSE target' = d.value /\ UNCHANGED result
       ELSE UNCHANGED <<trace, result, target>>
    /\ UNCHANGED <<bvars, op, stack, req, ret, ctxs, now, stub>>

OptionReq(r) ==
    [NoReq EXCEPT !.ctx = 1, !.method = "POST", !.url = "/a", !.data = r,
                  !.body = IF r = "" THEN NoBody ELSE BytesBody(r)]

\* ChainedReqInterceptor(chain...)(httpReq)
CallChainedReqInterceptor(chain, r) ==
    /\ pc = "idle"
    /\ op' = [NoOp EXCEPT !.name = "ChainedReqInterceptor"]
    /\ stack' = chain /\ pos' = 1 /\ pc' = "reqInterceptor"
    /\ req' = OptionReq(r)
    /\ UNCHANGED <<bvars, ret, ctxs, now, stub, trace, result, target>>

\* ChainedRespInterceptor(chain...)(httpResp)
CallChainedRespInterceptor(chain, status) ==
    /\ pc = "idle"
    /\ op' = [NoOp EXCEPT !.name = "ChainedRespInterceptor"]
    /\ stack' = chain /\ pos' = 1 /\ pc' = "respInterceptor"
    /\ ret' = [resp |-> [status |-> status, body |-> WireBody(BodyOf(status), 1)],
               err |-> Nil]
    /\ UNCHANGED <<bvars, req, ctxs, now, stub, trace, result, target>>

\* do(ctx, method, url, req, resp, opts...) up to the request interceptor
CallDo(reqInterceptor, respInterceptor, r, resp) ==
    /\ pc = "idle"
    /\ op' = [NoOp EXCEPT !.name = "do"]
    /\ calls' = <<DoLocals(reqInterceptor, respInterceptor, resp)>>
    /\ LET enc == IF r # Nil THEN CodecEncode("JSONCodec", r)
                  ELSE [data |-> "", err |-> Nil]
       IN  IF enc.err # Nil
           THEN /\ pc' = "done" /\ result' = [NoResult EXCEPT !.err = enc.err]
                /\ UNCHANGED <<stack, pos, req>>
           ELSE /\ pc' = "reqInterceptor" /\ pos' = 1 /\ stack' = reqInterceptor
                /\ req' = OptionReq(enc.data)
                /\ UNCHANGED result
    /\ UNCHANGED <<builders, urlValuesObjs, headerObjs, codesObjs, parent, retriable, singletons,
                   ret, ctxs, now, stub, trace, target>>

InitOptions ==
    /\ builders = <<>> /\ parent = <<>>
    /\ urlValuesObjs = <<>> /\ headerObjs = <<>> /\ codesObjs = <<>>
    /\ retriable = NoRetriable /\ calls = <<>> /\ singletons = PackageVars
    /\ ctxs = <<CallerCtx>>
    /\ pc = "idle" /\ op = NoOp /\ stack = <<>> /\ pos = 0
    /\ req = NoReq /\ ret = NoRet /\ now = 0 /\ stub = NoStub
    /\ trace = <<>> /\ result = NoResult /\ target = ""

NextOptions ==
    \/ pc = "idle" /\ \E chain \in Chains(ReqInterceptorKinds), r \in {"", "payload"} :
           CallChainedReqInterceptor(chain, r)
    \/ pc = "idle" /\ \E chain \in Chains(RespInterceptorKinds), status \in Statuses :
           CallChainedRespInterceptor(chain, status)
    \/ pc = "idle" /\ \E q \in Chains(ReqInterceptorKinds), p \in Chains(RespInterceptorKinds),
          r \in {Nil, "payload", "unencodable"}, resp \in {Nil, "target"} :
           CallDo(q, p, r, resp)
    \/ ReqInterceptorRuns
    \/ ReqChainReturns
    \/ \E status \in Statuses : ClientResponds(status)
    \/ ClientFails
    \/ RespInterceptorRuns
    \/ RespChainReturns

SpecOptions == InitOptions /\ [][NextOptions]_vars

----------------------------------------------------------------------------
(* Handler / JsonHandler (src/handler_wrapper.go:18-45): the typed handler,  *)
(* served under a LoggingHandler                                             *)

StatusBadRequest == 400

ErrHandler == "handler failed"

TypedHandler == <<Layer("typed")>>

\* the error text is written as the body
RefusedWithText(status) ==
    [resp |-> [status |-> status, body |-> BytesBody("error")], err |-> Nil]

\* w.WriteHeader(status); return
Refused(status) ==
    [resp |-> [status |-> status, body |-> BytesBody("")], err |-> Nil]

\* what the user's handler may return: a value, a value the codec cannot
\* encode, or an error
HandlerOutcomes == {"value", "unencodable", "error"}

\* codec.Decode(r.Body, reqObj): on an error the answer is 400, else the
\* user's handler is called next
TypedHandlerDecodes ==
    /\ At("typed", "down")
    /\ \E outcome \in ReadOutcomes(req.body) :
          LET d == CodecDecode("JsonCodec", ReadAll(req.body))
              err == DecodeFailure(outcome, d)
          IN  /\ trace' = Append(trace,
                     [Event("typed", "decode") EXCEPT !.data = ReadAll(req.body),
                                                      !.err = err])
              /\ IF err # Nil
                 THEN Returns(Refused(StatusBadRequest))
                 ELSE pc' = "handling" /\ UNCHANGED <<pos, ret>>
    /\ req' = [req EXCEPT !.body.consumed = (req.body.kind # "none")]
    /\ UNCHANGED <<bvars, op, stack, ctxs, now, stub, result, target>>

\* handler(ctx, *reqObj) returns; its value is encoded and written, and an
\* error of the handler or of the encoding is answered with 500. A failing
\* w.Write leaves the status the write began with and no body.
UserHandlerReturns(out, written) ==
    /\ pc = "handling" /\ pos \in DOMAIN stack /\ stack[pos].kind = "typed"
    /\ LET enc == CodecEncode("JsonCodec", out)
           err == IF out = "error" THEN ErrHandler ELSE enc.err
       IN  /\ trace' = Append(trace,
                  [Event("user", "handle") EXCEPT !.data = out, !.err = err])
           /\ IF err # Nil
              THEN Returns(Refused(StatusInternalServerError))
              ELSE Returns([resp |-> [status |-> StatusOK,
                                      body |-> BytesBody(IF written THEN enc.data
                                                         ELSE "")],
                            err |-> Nil])
    /\ UNCHANGED <<bvars, op, stack, req, ctxs, now, stub, result, target>>

\* request bodies a client may send: none, one the codec decodes, one it
\* does not
TypedBodies == {NoBody, WireBody("json", 1), WireBody("payload", 1)}

\* WrapHandler(JsonHandler(handler), LoggingHandler(lq, lp)).ServeHTTP(w, httpReq)
CallTypedHandler(lq, lp, connection, body) ==
    /\ pc = "idle"
    /\ op' = [name |-> "Handler", b |-> 0, args |-> <<>>]
    /\ ctxs' = <<CallerCtx>>
    /\ stack' = WrapHandler(TypedHandler, <<LoggingHandler(lq, lp)>>)
    /\ req' = [LoggedReq(connection, body) EXCEPT !.w = "w"]
    /\ pc' = "down" /\ pos' = 1
    /\ UNCHANGED <<bvars, ret, now, stub, trace, result, target>>

\* the client goes away while the request is served
ClientCancels ==
    /\ pc \in {"down", "handling"} /\ op.name = "Handler" /\ ~Done(1)
    /\ ctxs' = Cancelled(ctxs, 1)
    /\ UNCHANGED <<bvars, pc, op, stack, pos, req, ret, now, stub, trace, result, target>>

NextHandler ==
    \/ \E lq \in BOOLEAN, lp \in BOOLEAN, cn \in {"", "Upgrade"}, body \in TypedBodies :
           CallTypedHandler(lq, lp, cn, body)
    \/ HandlerFuncCall
    \/ HandlerFuncReturn
    \/ LoggingHandlerCall
    \/ LoggingHandlerReturn
    \/ TypedHandlerDecodes
    \/ \E out \in HandlerOutcomes, written \in BOOLEAN : UserHandlerReturns(out, written)
    \/ ClientCancels
    \/ ServeHTTPReturned

SpecHandler == InitLogging /\ [][NextHandler]_vars

----------------------------------------------------------------------------
(* The package-level singletons (src/transport.go:139-176 and                *)
(* src/unnamed/part_002:32-71): eight accessors, each guarding one package   *)
(* variable with its own sync.Once.  Goroutines call the accessors           *)
(* concurrently; every atomic load, store, lock and unlock of sync.Once.Do   *)
(* is a step of its own, so every interleaving of the callers is explored.   *)
(* calls holds the goroutines: where each stands, the accessor it is in,     *)
(* what its last call returned and how many calls it has finished.           *)

\* the calls one goroutine makes
MaxOnceCalls == 2

\* the goroutines calling the accessors
Goroutines == {1, 2}

\* a goroutine outside every accessor
GoroutineIdle == [pc |-> "idle", fn |-> "", got |-> 0, n |-> 0]

\* doSlow without its second look at done: whoever gets the lock runs f
OnceRunsAlways(done) == TRUE

\* sync.Once.doSlow: under the lock, f runs only when done is still 0
OnceRuns(done) == done = 0

\* a goroutine enters an accessor
CallAccessor(g, f) ==
    /\ calls[g].pc = "idle" /\ calls[g].n < MaxOnceCalls
    /\ calls' = [calls EXCEPT ![g].pc = "load", ![g].fn = f]
    /\ UNCHANGED <<builders, urlValuesObjs, headerObjs, codesObjs, parent, retriable,
                   singletons, cvars>>

\* sync.Once.Do: the fast path, one atomic load of done
OnceDo(g) ==
    /\ calls[g].pc = "load"
    /\ calls' = [calls EXCEPT ![g].pc =
                    IF singletons[calls[g].fn].done = 0 THEN "lock" ELSE "return"]
    /\ UNCHANGED <<builders, urlValuesObjs, headerObjs, codesObjs, parent, retriable,
                   singletons, cvars>>

\* doSlow: o.m.Lock() goes through only while no goroutine holds the mutex
OnceLock(g) ==
    /\ calls[g].pc = "lock" /\ singletons[calls[g].fn].m = 0
    /\ singletons' = [singletons EXCEPT ![calls[g].fn].m = g]
    /\ calls' = [calls EXCEPT ![g].pc = "check"]
    /\ UNCHANGED <<builders, urlValuesObjs, headerObjs, codesObjs, parent, retriable, cvars>>

\* doSlow: the second load of done, now under the lock
OnceCheck(g) ==
    /\ calls[g].pc = "check"
    /\ calls' = [calls EXCEPT ![g].pc =
                    IF OnceRuns(singletons[calls[g].fn].done) THEN "f" ELSE "unlock"]
    /\ UNCHANGED <<builders, urlValuesObjs, headerObjs, codesObjs, parent, retriable,
                   singletons, cvars>>

\* f(): the constructor allocates a new instance and the package variable
\* is assigned
ConstructorRuns(g) ==
    /\ calls[g].pc = "f"
    /\ singletons' = [singletons EXCEPT
                         ![calls[g].fn].instance = singletons[calls[g].fn].built + 1,
                         ![calls[g].fn].built = singletons[calls[g].fn].built + 1]
    /\ calls' = [calls EXCEPT ![g].pc = "store"]
    /\ UNCHANGED <<builders, urlValuesObjs, headerObjs, codesObjs, parent, retriable, cvars>>

\* doSlow: the deferred o.done.Store(1), run before the deferred unlock
OnceStore(g) ==
    /\ calls[g].pc = "store"
    /\ singletons' = [singletons EXCEPT ![calls[g].fn].done = 1]
    /\ calls' = [calls EXCEPT ![g].pc = "unlock"]
    /\ UNCHANGED <<builders, urlValuesObjs, headerObjs, codesObjs, parent, retriable, cvars>>

\* doSlow: the deferred o.m.Unlock()
OnceUnlock(g) ==
    /\ calls[g].pc = "unlock"
    /\ singletons' = [singletons EXCEPT ![calls[g].fn].m = 0]
    /\ calls' = [calls EXCEPT ![g].pc = "return"]
    /\ UNCHANGED <<builders, urlValuesObjs, headerObjs, codesObjs, parent, retriable, cvars>>

\* the accessor reads its package variable and returns it
AccessorReturns(g) ==
    /\ calls[g].pc = "return"
    /\ calls' = [calls EXCEPT ![g].pc = "idle",
                              ![g].got = singletons[calls[g].fn].instance,
                              ![g].n = calls[g].n + 1]
    /\ UNCHANGED <<builders, urlValuesObjs, headerObjs, codesObjs, parent, retriable,
                   singletons, cvars>>

InitOnce ==
    /\ builders = <<>> /\ parent = <<>>
    /\ urlValuesObjs = <<EmptyValues>>
    /\ headerObjs = <<EmptyHeader>>
    /\ codesObjs = <<<<StatusOK>>>>
    /\ StackIdle /\ ctxs = <<>>
    /\ retriable = NoRetriable
    /\ singletons = PackageVars
    /\ calls = [g \in Goroutines |-> GoroutineIdle]

NextOnce ==
    \/ \E g \in Goroutines, f \in Accessors : CallAccessor(g, f)
    \/ \E g \in Goroutines : OnceDo(g)
    \/ \E g \in Goroutines : OnceLock(g)
    \/ \E g \in Goroutines : OnceCheck(g)
    \/ \E g \in Goroutines : ConstructorRuns(g)
    \/ \E g \in Goroutines : OnceStore(g)
    \/ \E g \in Goroutines : OnceUnlock(g)
    \/ \E g \in Goroutines : AccessorReturns(g)

SpecOnce == InitOnce /\ [][NextOnce]_vars

----------------------------------------------------------------------------
(* The retry transport (src/transport.go:297-335): concurrent RoundTrip   *)
(* calls through one *retriableTransport, each with its own request, whose *)
(* context is ctxs[c]                                                      *)

MaxRetry == 3

\* the calls made through the transport
CallIds == {1, 2}

\* what the wrapped transport may answer
RetryStatuses == {200, 499, 500}


\* RoundTrip was called with a request whose Body is body
RetryCall(body) ==
    [pc |-> "entry", orig |-> body, body |-> body, reads |-> 0, saved |-> "",
     i |-> 0, resp |-> 0, err |-> Nil, startedDone |-> FALSE, seen |-> <<>>,
     slept |-> 0, sleptDone |-> FALSE, ret |-> [status |-> 0, err |-> Nil]]

\* the body is left as the attempt before found it
KeptBody(c) == calls[c].body

\* every call reads the buffer of the first
SharedBody(c) ==
    [kind |-> "buffer", data |-> calls[1].saved, ctx |-> 0,
     consumed |-> FALSE, closed |-> FALSE]

\* io.NopCloser(bytes.NewBuffer(saved))
FreshBody(c) ==
    [kind |-> "buffer", data |-> calls[c].saved, ctx |-> 0,
     consumed |-> FALSE, closed |-> FALSE]

\* one attempt more than maxRetry
MayAttemptOneMore(i, maxRetry) == i <= maxRetry

\* i < rt.maxRetry
MayAttempt(i, maxRetry) == i < maxRetry

\* a 4xx is retried too
ShouldRetryFrom400(status) == status >= 400

\* resp.StatusCode >= http.StatusInternalServerError
ShouldRetry(status) == status >= StatusInternalServerError

\* the last response counts as a failure
ExhaustedAsError(call) ==
    [status |-> 0, err |-> IF call.resp # 0 THEN ErrStatusCode ELSE call.err]

\* after the loop: if resp != nil { return resp, nil }; return nil, err
Exhausted(call) ==
    IF call.resp # 0 THEN [status |-> call.resp, err |-> Nil]
    ELSE [status |-> 0, err |-> call.err]

\* what reading the request's Body now does to the original stream
ReadsOrig(call) == call.body.kind \notin {"buffer", "none"}

\* resp.Body of an attempt's response as the loop leaves it: `continue` and
\* the next `resp, err = ...` drop a response without a resp.Body.Close()
Discarded(status, err) ==
    IF err # Nil THEN NoBody ELSE WireBody(BodyOf(status), 0)

\* the record of an attempt: what the wrapped transport found in the body
\* and what it gave back
Attempt(call, status, err) ==
    [data |-> ReadAll(call.body), status |-> status, err |-> err,
     closed |-> Discarded(status, err).closed]

\* RoundTrip up to the loop: saved, err = ioutil.ReadAll(req.Body)
RetrySave(c) ==
    /\ c \in DOMAIN calls /\ calls[c].pc = "entry"
    /\ IF retriable.maxRetry > 0 /\ calls[c].body.kind # "none"
       THEN \E outcome \in ReadOutcomes(calls[c].body) :
              IF outcome = "err"
              THEN calls' = [calls EXCEPT ![c].pc = "done",
                               ![c].reads = @ + 1,
                               ![c].body.consumed = TRUE, ![c].orig.consumed = TRUE,
                               ![c].ret = [status |-> 0, err |-> ErrBodyRead]]
              ELSE calls' = [calls EXCEPT ![c].pc = "loop",
                               ![c].reads = @ + 1,
                               ![c].saved = ReadAll(calls[c].body),
                               ![c].body.consumed = TRUE, ![c].orig.consumed = TRUE]
       ELSE calls' = [calls EXCEPT ![c].pc = "loop"]
    /\ UNCHANGED <<builders, urlValuesObjs, headerObjs, codesObjs, parent, retriable, singletons, cvars>>

\* the loop test, then either the start of an attempt (req.Body replaced,
\* rt.rt.RoundTrip invoked) or the return after the loop
RetryLoop(c) ==
    /\ c \in DOMAIN calls /\ calls[c].pc = "loop"
    /\ IF MayAttempt(calls[c].i, retriable.maxRetry)
       THEN calls' = [calls EXCEPT ![c].pc = "attempt", ![c].body = FreshBody(c),
                        ![c].startedDone = (@ \/ Done(c))]
       ELSE calls' = [calls EXCEPT ![c].pc = "done", ![c].ret = Exhausted(calls[c])]
    /\ UNCHANGED <<builders, urlValuesObjs, headerObjs, codesObjs, parent, retriable, singletons, cvars>>

\* rt.rt.RoundTrip returns a response: a 5xx goes to the sleep, any other
\* status is returned
WrappedResponds(c, status) ==
    /\ c \in DOMAIN calls /\ calls[c].pc = "attempt"
    /\ LET call == [calls[c] EXCEPT
                       !.seen = Append(@, Attempt(calls[c], status, Nil)),
                       !.reads = IF ReadsOrig(calls[c]) THEN @ + 1 ELSE @,
                       !.body.consumed = TRUE,
                       !.resp = status, !.err = Nil]
       IN  calls' = [calls EXCEPT ![c] =
                IF ShouldRetry(status) THEN [call EXCEPT !.pc = "sleep"]
                ELSE [call EXCEPT !.pc = "done",
                                  !.ret = [status |-> status, err |-> Nil]]]
    /\ UNCHANGED <<builders, urlValuesObjs, headerObjs, codesObjs, parent, retriable, singletons, cvars>>

\* rt.rt.RoundTrip returns an error (of the context, when that is done): the
\* loop goes on to i++
WrappedFails(c) ==
    /\ c \in DOMAIN calls /\ calls[c].pc = "attempt"
    /\ LET e == IF Done(c) THEN CtxErr(c) ELSE ErrNetwork
       IN  calls' = [calls EXCEPT
                       ![c].seen = Append(@, Attempt(calls[c], 0, e)),
                       ![c].reads = IF ReadsOrig(calls[c]) THEN @ + 1 ELSE @,
                       ![c].body.consumed = TRUE,
                       ![c].resp = 0, ![c].err = e,
                       ![c].i = @ + 1, ![c].pc = "loop"]
    /\ UNCHANGED <<builders, urlValuesObjs, headerObjs, codesObjs, parent, retriable, singletons, cvars>>

\* time.Sleep(time.Millisecond * 100); continue
RetrySleep(c) ==
    /\ c \in DOMAIN calls /\ calls[c].pc = "sleep"
    /\ calls' = [calls EXCEPT ![c].slept = @ + 1,
                    ![c].sleptDone = (@ \/ Done(c)),
                    ![c].i = @ + 1, ![c].pc = "loop"]
    /\ UNCHANGED <<builders, urlValuesObjs, headerObjs, codesObjs, parent, retriable, singletons, cvars>>

\* the caller of call c cancels the request's context
CancelCall(c) ==
    /\ c \in DOMAIN calls /\ calls[c].pc # "done"
    /\ ~Done(c)
    /\ ctxs' = Cancelled(ctxs, c)
    /\ UNCHANGED <<bvars, pc, op, stack, pos, req, ret, now, stub, trace, result, target>>

\* the request bodies tried: for call 1 bytes off a stream that fails once
\* its context is done, for call 2 other bytes, in memory, or no body
RetryBodies(c) ==
    IF c = 1 THEN {WireBody("payload", 1)}
    ELSE {BytesBody("other"), NoBody}

\* RetriableTransport(maxRetry, stub), and a RoundTrip call for each caller
InitRetry ==
    /\ builders = <<>> /\ parent = <<>>
    /\ urlValuesObjs = <<EmptyValues>>
    /\ headerObjs = <<EmptyHeader>>
    /\ codesObjs = <<<<StatusOK>>>>
    /\ StackIdle
    /\ ctxs = [c \in CallIds |-> CallerCtx]
    /\ \E n \in 0 .. MaxRetry : retriable = [maxRetry |-> n]
    /\ singletons = PackageVars
    /\ \E b1 \in RetryBodies(1), b2 \in RetryBodies(2) :
           calls = [c \in CallIds |-> RetryCall(IF c = 1 THEN b1 ELSE b2)]

\* the steps of call c, the wrapped transport's answers included
RetryStep(c) ==
    \/ RetrySave(c)
    \/ RetryLoop(c)
    \/ \E status \in RetryStatuses : WrappedResponds(c, status)
    \/ WrappedFails(c)
    \/ RetrySleep(c)

NextRetry ==
    \/ \E c \in CallIds : RetrySave(c)
    \/ \E c \in CallIds : RetryLoop(c)
    \/ \E c \in CallIds, status \in RetryStatuses : WrappedResponds(c, status)
    \/ \E c \in CallIds : WrappedFails(c)
    \/ \E c \in CallIds : RetrySleep(c)
    \/ \E c \in CallIds : CancelCall(c)

SpecRetry == InitRetry /\ [][NextRetry]_vars

\* every call keeps running and the wrapped transport returns from every
\* attempt; nothing is assumed of the callers' cancelling
SpecRetryFair ==
    InitRetry /\ [][NextRetry]_vars /\ \A c \in CallIds : WF_vars(RetryStep(c))

----------------------------------------------------------------------------
(* The builder as a program: New(), then chained calls on any builder made so far *)

Methods == {"PURGE"}

BaseURLs == {"http://h"}

QVals == {"a"}

URLValuesArgs == {[EmptyValues EXCEPT !["q1"] = <<"a", "b">>]}

HeaderArgKeys == {"x-a", "Content-Type"}

HeadersArgs == {[k \in {"x-a"} |-> <<"h1", "h2">>]}

CodesArgs == {<<>>, <<200, 404>>}

TimeoutArgs == {0, 2}

ContentTypeArgs == {"", "text/xml"}

Init ==
    /\ builders = <<NewBuilder>>
    /\ urlValuesObjs = <<EmptyValues>>
    /\ headerObjs = <<EmptyHeader>>
    /\ codesObjs = <<<<StatusOK>>>>
    /\ parent = <<0>>
    /\ CallIdle

Next ==
    \/ \E b \in DOMAIN builders, path \in Paths : Get(b, path)
    \/ \E b \in DOMAIN builders, path \in Paths : Head_(b, path)
    \/ \E b \in DOMAIN builders, path \in Paths : Post(b, path)
    \/ \E b \in DOMAIN builders, path \in Paths : Put(b, path)
    \/ \E b \in DOMAIN builders, path \in Paths : Patch(b, path)
    \/ \E b \in DOMAIN builders, path \in Paths : Delete(b, path)
    \/ \E b \in DOMAIN builders, path \in Paths : Connect(b, path)
    \/ \E b \in DOMAIN builders, path \in Paths : Options(b, path)
    \/ \E b \in DOMAIN builders, path \in Paths : Trace(b, path)
    \/ \E b \in DOMAIN builders, m \in Methods, path \in Paths : Method(b, m, path)
    \/ \E b \in DOMAIN builders, u \in BaseURLs : BaseURL(b, u)
    \/ \E b \in DOMAIN builders, k \in QKeys, v \in QVals : WithQueryString(b, k, v)
    \/ \E b \in DOMAIN builders, vs \in URLValuesArgs : WithURLValues(b, vs)
    \/ \E b \in DOMAIN builders, obj \in QueryObjs : WithQueryStringObj(b, obj)
    \/ \E b \in DOMAIN builders : WithCodec(b, "StatusJsonCodec")
    \/ \E b \in DOMAIN builders, k \in HeaderArgKeys : WithHeader(b, k, "h")
    \/ \E b \in DOMAIN builders : WithBasicAuth(b, "u", "p")
    \/ \E b \in DOMAIN builders, hs \in HeadersArgs : WithHeaders(b, hs)
    \/ \E b \in DOMAIN builders : WithReq(b, "payload")
    \/ \E b \in DOMAIN builders : WithResp(b, "target")
    \/ \E b \in DOMAIN builders, codes \in CodesArgs : ExpectedStatusCodes(b, codes)
    \/ \E b \in DOMAIN builders, lq \in BOOLEAN, lp \in BOOLEAN : Logging(b, lq, lp)
    \/ \E b \in DOMAIN builders, t \in TimeoutArgs : Timeout(b, t)
    \/ \E b \in DOMAIN builders, t \in BOOLEAN : Tracing(b, t)
    \/ \E b \in DOMAIN builders, ct \in ContentTypeArgs : ContentType(b, ct)
    \/ \E b \in DOMAIN builders, i \in BOOLEAN : Insecure(b, i)
    \/ \E b \in DOMAIN builders : WithTransport(b, "stub")

Spec == Init /\ [][Next]_vars

\* the values a caller writes into a slice it holds
CodeWrites == {StatusOK, 404, 500}

\* codes[i] = v by the caller that passed `codes...` to ExpectedStatusCodes:
\* a variadic call with a slice hands the function that very slice, so the
\* caller still holds array k of the heap (array 1 is New()'s own literal)
CallerWritesCodes(k, i, v) ==
    /\ k > 1 /\ codesObjs[k][i] # v
    /\ codesObjs' = [codesObjs EXCEPT ![k][i] = v]
    /\ UNCHANGED <<builders, urlValuesObjs, headerObjs, parent, cvars, rvars>>

\* chained calls on builders whose callers go on using the slices they passed
NextCodes ==
    \/ \E b \in DOMAIN builders, codes \in CodesArgs : ExpectedStatusCodes(b, codes)
    \/ \E b \in DOMAIN builders, t \in BOOLEAN : Tracing(b, t)
    \/ \E b \in DOMAIN builders, lq \in BOOLEAN, lp \in BOOLEAN : Logging(b, lq, lp)
    \/ \E k \in DOMAIN codesObjs, i \in 1 .. 2, v \in CodeWrites :
           i \in DOMAIN codesObjs[k] /\ CallerWritesCodes(k, i, v)

SpecCodes == Init /\ [][NextCodes]_vars

----------------------------------------------------------------------------
(* What a caller holding builder i can observe of it *)

QueryOf(i) == urlValuesObjs[builders[i].urlValues]

HeaderOf(i) == headerObjs[builders[i].header]

CodesOf(i) ==
    IF builders[i].expectedStatusCodes = 0 THEN <<>>
    ELSE codesObjs[builders[i].expectedStatusCodes]

\* every field, with the maps and the slice read through their pointers
ConfigOf(i) ==
    [fields |-> [builders[i] EXCEPT !.urlValues = 0, !.header = 0,
                                    !.expectedStatusCodes = 0],
     query |-> QueryOf(i), header |-> HeaderOf(i), codes |-> CodesOf(i)]

RECURSIVE DerivedFrom(_, _)
\* builder i was derived from builder a by one or more chained calls
DerivedFrom(i, a) ==
    /\ parent[i] # 0
    /\ (parent[i] = a \/ DerivedFrom(parent[i], a))

\* a chained call returned in this step
ChainedCall == parent' # parent

----------------------------------------------------------------------------
(* Claims on the builder *)

\* C1: every chaining method returns a new builder and leaves every field of
\* its receiver, and of every other builder made so far, as it was.
C1_ReceiverNeverMutated ==
    [][ChainedCall =>
          /\ Len(builders') = Len(builders) + 1
          /\ \A i \in DOMAIN builders :
                 builders'[i] = builders[i] /\ ConfigOf(i)' = ConfigOf(i)]_vars

\* a builder two chained calls away from New() that differs from its receiver,
\* which in turn differs from New()
C1_Witness ==
    \E i \in DOMAIN builders :
        /\ parent[i] # 0 /\ parent[parent[i]] # 0
        /\ HeaderOf(i) # HeaderOf(parent[i])
        /\ builders[parent[i]].method # builders[parent[parent[i]]].method

\* C2: the query and header maps are copied at every chained call and never
\* shared: no two builders point to the same map, and a call that adds a
\* query parameter or a header changes those of no builder made before.
C2_MapsNeverShared ==
    [][/\ \A i \in DOMAIN builders :
              QueryOf(i)' = QueryOf(i) /\ HeaderOf(i)' = HeaderOf(i)
       /\ \A i, j \in DOMAIN builders' :
              i # j => /\ builders'[i].urlValues # builders'[j].urlValues
                       /\ builders'[i].header # builders'[j].header]_vars

\* two builders derived from the same ancestor, each with a query parameter or
\* a header the other and the ancestor lack
C2_Witness ==
    \E i, j \in DOMAIN builders :
        /\ i # j /\ parent[i] # 0 /\ parent[i] = parent[j]
        /\ QueryOf(i) # QueryOf(parent[i]) /\ QueryOf(i) # QueryOf(j)
        /\ HeaderOf(j) # HeaderOf(parent[j]) /\ HeaderOf(i) # HeaderOf(j)

\* C3: every builder derived, by any number of chained calls, from a builder
\* that carries a deferred error carries that error and that builder's whole
\* configuration.
C3_ErrorIsSticky ==
    \A a, i \in DOMAIN builders :
        (builders[a].err # Nil /\ DerivedFrom(i, a)) => ConfigOf(i) = ConfigOf(a)

\* a chained call was made on a builder whose WithQueryStringObj conversion
\* failed after adding a pair
C3_Witness ==
    \E a, i \in DOMAIN builders :
        /\ DerivedFrom(i, a) /\ builders[a].err = ErrQuery
        /\ parent[a] # 0 /\ builders[parent[a]].err = Nil
        /\ QueryOf(a) # QueryOf(parent[a])

----------------------------------------------------------------------------
(* What a call left behind *)

Kinds(transport) == [k \in DOMAIN transport |-> transport[k].kind]

\* the layers that were entered, in the order they were
Entered == SelectSeq(trace, LAMBDA e : e.phase = "pre")

\* what the base transport gave back, or NoRet when it was not reached
BaseEvents == SelectSeq(trace, LAMBDA e : e.layer = "base" /\ (e.status # 0 \/ e.err # Nil))

BaseAnswered == BaseEvents # <<>>

BaseAnswer == BaseEvents[Len(BaseEvents)]

IsPrefix(s, t) == Len(s) <= Len(t) /\ \A k \in DOMAIN s : s[k] = t[k]

----------------------------------------------------------------------------
(* Claims on the execution path *)

EntryPoints == {"BuildHTTPReq", "BuildTransport", "Do", "DoWithTransport", "DoWithClient"}

\* C4: called on a builder that carries a deferred error, BuildHTTPReq,
\* BuildTransport, Do, DoWithTransport and DoWithClient return at once with
\* that very error (not wrapped): no request is built, no transport is
\* assembled, no layer and no base transport runs, the target is not written.
C4_DeferredErrorShortCircuits ==
    (op.name \in EntryPoints /\ builders[op.b].err # Nil) =>
        /\ pc = "done"
        /\ result = [NoResult EXCEPT !.err = builders[op.b].err]
        /\ req = NoReq /\ stack = <<>> /\ pos = 0
        /\ trace = <<>> /\ ret = NoRet /\ stub = NoStub
        /\ target = ""

\* BuildHTTPReq came back from a builder whose deferred error is ErrQuery
C4_Witness ==
    /\ op.name = "BuildHTTPReq" /\ pc = "done"
    /\ builders[op.b].err = ErrQuery /\ result.err = ErrQuery

\* the layers of BuildTransport's result as the claim orders them, the
\* outermost first: applied last, timeout comes right under the closure
ExpectedLayers(b) ==
    <<"func", "timeout">>
    \o (IF builders[b].tracing THEN <<"tracing">> ELSE <<>>)
    \o <<"logging">>
    \o (IF builders[b].contentType \in {"", "application/json"} THEN <<"json">> ELSE <<>>)
    \o <<"statuscodes", "base">>

ExpectedDefaultLayers ==
    <<"func", "timeout", "tracing", "logging", "json", "statuscode", "base">>

\* C5: the transport BuildTransport returns has, from the outside in, the
\* layers timeout, tracing (if enabled), logging, content-type stamping (if
\* the content type is empty or application/json), status validation, base;
\* DefaultTransportWrapper's has timeout, tracing, logging, stamping, status
\* validation, base. A call enters the layers in exactly that order, whatever
\* the request, the response or the error.
C5_FixedWrapperOrder ==
    /\ (op.name \in {"Do", "BuildTransport"} /\ result.err = Nil /\ pc # "idle")
          => Kinds(stack) = ExpectedLayers(op.b)
    /\ op.name = "DefaultTransportWrapper" => Kinds(stack) = ExpectedDefaultLayers
    /\ op.name \in {"Do", "DefaultTransportWrapper"} =>
          IsPrefix([k \in DOMAIN Entered |-> Entered[k].layer], Kinds(stack))

\* a Do that went through a stack with neither tracing nor stamping, down to
\* the base and back
C5_Witness ==
    /\ op.name = "Do" /\ pc = "done" /\ BaseAnswered
    /\ ~builders[op.b].tracing /\ builders[op.b].contentType = "text/xml"
    /\ Len(stack) = 5

\* C7 as the spec states it: whenever status validation has accepted or
\* rejected a response, the logging layer had seen that response before.
C7_LoggingSeesResponseBeforeValidation ==
    (op.name \in {"Do", "DefaultTransportWrapper"}) =>
        \A k \in DOMAIN trace :
            (trace[k].layer \in {"statuscode", "statuscodes"}
             /\ trace[k].phase = "post" /\ trace[k].status # 0)
            => \E j \in 1 .. (k - 1) :
                   /\ trace[j].layer = "logging" /\ trace[j].phase = "post"
                   /\ trace[j].status = trace[k].status

\* the timeout BuildTransport's timeout layer is to enforce
EffectiveTimeout ==
    IF op.b = 0 THEN 10
    ELSE IF builders[op.b].timeout <= 0 THEN 10 ELSE builders[op.b].timeout

\* C8: in a call through BuildTransport's stack (or the default one), every
\* layer under the timeout layer runs with a context that descends from the
\* one the timeout layer made; that context is a child of the request's own,
\* its deadline is the configured timeout (10 when that is <= 0) after it
\* was made, it is done once the deadline has come, and it and all the
\* inner layers' contexts are done as soon as the request's context is.
C8_InnerLayersRunUnderTimeout ==
    (op.name \in {"Do", "DefaultTransportWrapper"}) =>
        \A k \in DOMAIN trace :
            (trace[k].pos > 2) =>
                LET made == trace[2]
                    c == made.made
                IN  /\ made.layer = "timeout" /\ c # 0
                    /\ DescendsFrom(ctxs, trace[k].ctx, c)
                    /\ ctxs[c].parent = 1
                    /\ ctxs[c].deadline = made.at + EffectiveTimeout
                    /\ now >= ctxs[c].deadline => Done(c)
                    /\ Done(1) => (Done(c) /\ Done(trace[k].ctx))
                    /\ Done(c) => Done(trace[k].ctx)

\* the caller cancelled while the base, reached under a defaulted timeout,
\* was blocked
C8_Witness ==
    /\ op.name = "Do" /\ builders[op.b].timeout <= 0 /\ builders[op.b].tracing
    /\ pc = "blocked" /\ now > 0 /\ Done(1) /\ ctxs[1].err = ErrCanceled

\* the base is blocked and will stay so past the timeout layer's deadline
BlocksPastTimeout ==
    /\ op.name = "Do" /\ pc = "blocked"
    /\ stub.until = -1 \/ stub.until > trace[2].at + EffectiveTimeout

\* C9: whenever the base transport of a Do blocks for longer than the
\* builder's timeout, Do eventually returns to its caller, with a deadline
\* or a cancellation error.
C9_BlockedDoReturns ==
    BlocksPastTimeout ~>
        (pc = "done" /\ result.err \in {ErrDeadline, ErrCanceled} /\ result.wrapped)

\* a Do whose base blocked without end came back with the deadline's error
\* after the clock had run up to the timeout
C9_Witness ==
    /\ op.name = "Do" /\ pc = "done" /\ stub.kind = "block" /\ stub.until = -1
    /\ result.err = ErrDeadline /\ now = EffectiveTimeout /\ ~Done(1)

\* the set of statuses the call in progress is to accept
AcceptedSet ==
    IF op.b = 0 \/ CodesOf(op.b) = <<>> THEN {200}
    ELSE {CodesOf(op.b)[k] : k \in DOMAIN CodesOf(op.b)}

\* status validation has just returned
JustValidated ==
    /\ pc = "up" /\ pos + 1 \in DOMAIN stack
    /\ stack[pos + 1].kind \in {"statuscode", "statuscodes"}

\* C10: status validation, with the accepted set S the builder's codes or
\* {200} when there are none, returns what the layer under it returned if
\* that is an error or a response whose status is in S, the response untouched;
\* for a status outside S it returns an error and no response. A Do whose
\* base answered with a status outside S fails with that error; one whose
\* base answered with a status in S fails only if reading or decoding the
\* body does.
C10_StatusValidation ==
    (op.name \in {"Do", "DefaultTransportWrapper"} /\ BaseAnswered) =>
        LET inner == BaseAnswer
        IN  /\ JustValidated =>
                IF inner.err # Nil THEN ret = [resp |-> NoResp, err |-> inner.err]
                ELSE IF inner.status \in AcceptedSet
                THEN /\ ret.err = Nil
                     /\ ret.resp = [status |-> inner.status,
                                    body |-> WireBody(BodyOf(inner.status), inner.ctx)]
                ELSE ret.resp = NoResp /\ ret.err \in {ErrStatusCode, ErrStatusCodes}
            /\ (pc = "done" /\ inner.err = Nil) =>
                IF inner.status \in AcceptedSet
                THEN /\ result.err \notin {ErrStatusCode, ErrStatusCodes}
                     /\ (op.b # 0 /\ builders[op.b].resp = Nil)
                            => result.err \in {Nil, ErrBodyRead}
                ELSE /\ result.err \in {ErrStatusCode, ErrStatusCodes}
                     /\ ret.resp = NoResp /\ target = ""

\* a Do with ExpectedStatusCodes(200, 404) whose base answered 404 succeeded
C10_Witness ==
    /\ op.name = "Do" /\ pc = "done" /\ BaseAnswered
    /\ CodesOf(op.b) = <<200, 404>>
    /\ BaseAnswer.status = 404 /\ result.err = Nil /\ ret.resp.status = 404

----------------------------------------------------------------------------
(* Claims on the composition of wrappers *)

\* what ran, and when: layer, phase and probe of every event
Shape(tr) == [k \in DOMAIN tr |-> <<tr[k].layer, tr[k].phase, tr[k].id>>]

\* the order the claim gives for wrappers w1..wn: the closure, wn .. w1 before
\* delegating, the base, w1 .. wn after, the closure
ExpectedOrder(ws, closure, probe, base) ==
    <<<<closure, "pre", 0>>>>
    \o [k \in DOMAIN ws |-> <<probe, "pre", ws[Len(ws) + 1 - k]>>]
    \o <<base>>
    \o [k \in DOMAIN ws |-> <<probe, "post", ws[k]>>]
    \o <<<<closure, "post", 0>>>>

\* C6: through WrapTransport(base, w1, ..., wn) and WrapHandler(base, w1, ...,
\* wn) a call runs wn, ..., w1 before delegation, then the base, then w1, ...,
\* wn after delegation; with no wrappers the caller gets what the base
\* returned.
C6_LastAppliedIsOutermost ==
    /\ op.name = "WrapTransport" =>
          LET expected == ExpectedOrder(op.args, "func", "probe", <<"base", "pre", 1>>)
          IN  /\ IsPrefix(Shape(trace), expected)
              /\ pc = "done" =>
                    /\ Shape(trace) = expected
                    /\ op.args = <<>> =>
                          /\ ret.resp.status = BaseAnswer.status
                          /\ ret.err = BaseAnswer.err /\ result.err = BaseAnswer.err
    /\ op.name = "WrapHandler" =>
          LET expected == ExpectedOrder(op.args, "hfunc", "hprobe", <<"handler", "pre", 0>>)
          IN  /\ IsPrefix(Shape(trace), expected)
              /\ pc = "done" => Shape(trace) = expected

\* a call through three wrappers applied in the order 2, 3, 1 came back
C6_Witness ==
    /\ op.name = "WrapHandler" /\ pc = "done" /\ op.args = <<2, 3, 1>>
    /\ Len(trace) = 9

----------------------------------------------------------------------------
(* Claims on the retry transport *)

\* the bytes of the body call c was given
BodyBytes(c) == calls[c].orig.data

Last(s) == s[Len(s)]

\* C11: when maxRetry > 0 and the request has a body of bytes X, the
\* original stream is read once, before the first attempt, and never again,
\* and the wrapped transport finds exactly X in the body on every attempt.
C11_EveryAttemptSeesSavedBody ==
    \A c \in DOMAIN calls :
        (retriable.maxRetry > 0 /\ calls[c].orig.kind # "none") =>
            /\ calls[c].reads <= 1
            /\ calls[c].pc \in {"loop", "attempt", "sleep"} =>
                   (calls[c].reads = 1 /\ calls[c].saved = BodyBytes(c))
            /\ calls[c].seen # <<>> => calls[c].reads = 1
            /\ \A k \in DOMAIN calls[c].seen : calls[c].seen[k].data = BodyBytes(c)

\* a call with body "payload" was answered 500, then an error, then 200
C11_Witness ==
    \E c \in DOMAIN calls :
        /\ calls[c].pc = "done" /\ BodyBytes(c) = "payload"
        /\ Len(calls[c].seen) = 3
        /\ calls[c].seen[1].status = 500 /\ calls[c].seen[2].err = ErrNetwork
        /\ calls[c].seen[3].status = 200 /\ calls[c].seen[3].data = "payload"

\* C12 as the spec states it: an attempt that ends in a transport-level
\* error is the last one, and the call returns that error.
C12_ErrorIsNotRetried ==
    \A c \in DOMAIN calls :
        \A k \in DOMAIN calls[c].seen :
            calls[c].seen[k].err # Nil =>
                /\ k = Len(calls[c].seen)
                /\ calls[c].pc # "attempt"
                /\ calls[c].pc = "done" =>
                       calls[c].ret = [status |-> 0, err |-> calls[c].seen[k].err]

\* C13: a call that returns after maxRetry attempts returns the last
\* attempt's response with no error if that attempt gave one, whatever its
\* status, and the last attempt's error with no response otherwise.
C13_ExhaustedReturnsLastOutcome ==
    \A c \in DOMAIN calls :
        (calls[c].pc = "done" /\ retriable.maxRetry > 0
         /\ Len(calls[c].seen) = retriable.maxRetry) =>
            LET last == Last(calls[c].seen)
            IN  IF last.err = Nil
                THEN calls[c].ret = [status |-> last.status, err |-> Nil]
                ELSE calls[c].ret = [status |-> 0, err |-> last.err]

\* a call returned a 500 after its attempts ran out, one with an error
\* before the last, and another returned the error of its last attempt
\* after a 500
C13_Witness ==
    \E c, d \in DOMAIN calls :
        /\ calls[c].pc = "done" /\ Len(calls[c].seen) = retriable.maxRetry
        /\ retriable.maxRetry >= 2
        /\ calls[c].seen[1].err # Nil /\ Last(calls[c].seen).status = 500
        /\ calls[c].ret = [status |-> 500, err |-> Nil]
        /\ calls[d].pc = "done" /\ Len(calls[d].seen) = retriable.maxRetry
        /\ calls[d].seen[1].status = 500 /\ Last(calls[d].seen).err # Nil
        /\ calls[d].ret.status = 0 /\ calls[d].ret.err = Last(calls[d].seen).err

\* C14: once the wrapped transport has answered a status below 500 after
\* nothing but 5xx answers, on attempt k, the call has returned that response
\* with no error and the wrapped transport was invoked k times, no more.
C14_ReturnsFirstNon5xx ==
    \A c \in DOMAIN calls :
        \A k \in DOMAIN calls[c].seen :
            (/\ calls[c].seen[k].err = Nil /\ calls[c].seen[k].status < 500
             /\ \A j \in 1 .. (k - 1) :
                    calls[c].seen[j].err = Nil /\ calls[c].seen[j].status >= 500) =>
                /\ k <= retriable.maxRetry
                /\ Len(calls[c].seen) = k
                /\ calls[c].pc = "done"
                /\ calls[c].ret = [status |-> calls[c].seen[k].status, err |-> Nil]

\* 500, 500, then 499: returned on the third attempt
C14_Witness ==
    \E c \in DOMAIN calls :
        /\ calls[c].pc = "done" /\ Len(calls[c].seen) = 3
        /\ calls[c].seen[1].status = 500 /\ calls[c].seen[2].status = 500
        /\ calls[c].seen[3].status = 499 /\ calls[c].ret.status = 499
        /\ calls[c].slept = 2

\* C15: a call never invokes the wrapped transport more than maxRetry times,
\* and every call returns, whatever the wrapped transport answers.
C15_AtMostMaxRetryThenReturns ==
    /\ [](\A c \in DOMAIN calls : Len(calls[c].seen) <= retriable.maxRetry)
    /\ \A c \in CallIds :
           (calls[c].pc = "entry") ~>
               (calls[c].pc = "done" /\ Len(calls[c].seen) <= retriable.maxRetry)

\* a call returned after as many attempts as maxRetry allows, of all kinds
C15_Witness ==
    \E c \in DOMAIN calls :
        /\ calls[c].pc = "done" /\ retriable.maxRetry >= 3
        /\ Len(calls[c].seen) = retriable.maxRetry
        /\ calls[c].seen[1].err # Nil /\ calls[c].seen[2].status = 500
        /\ calls[c].seen[3].status = 500

\* C16 as the spec states it: no attempt starts, and no delay between
\* attempts is waited out, while the request's context is done.
C16_NoAttemptOnceContextDone ==
    \A c \in DOMAIN calls :
        /\ ~calls[c].startedDone
        /\ ~calls[c].sleptDone

\* what one call's own history allows: the attempts so far but the last were
\* all to be retried, and a call that returned had read its body in vain, or
\* had no attempt to make, or got a status below 500, or made maxRetry attempts
OwnHistory(c) ==
    LET seen == calls[c].seen
    IN  /\ Len(seen) <= retriable.maxRetry
        /\ \A k \in 1 .. (Len(seen) - 1) : seen[k].err # Nil \/ seen[k].status >= 500
        /\ calls[c].pc = "done" =>
              \/ seen = <<>> /\ (retriable.maxRetry = 0 \/ calls[c].ret.err = ErrBodyRead)
              \/ seen # <<>> /\ Last(seen).err = Nil /\ Last(seen).status < 500
              \/ Len(seen) = retriable.maxRetry
        /\ calls[c].pc # "done" =>
              calls[c].i = Len(seen) - (IF calls[c].pc = "sleep" THEN 1 ELSE 0)

\* C17: however the calls through one retry transport interleave, every
\* attempt of a call finds that call's own body bytes, and the attempts a
\* call makes follow from the answers to its own attempts alone.
C17_CallsAreIndependent ==
    \A c \in DOMAIN calls :
        /\ OwnHistory(c)
        /\ calls[c].saved \in {"", BodyBytes(c)}
        /\ \A k \in DOMAIN calls[c].seen : calls[c].seen[k].data = BodyBytes(c)

\* two calls with different bodies are both inside an attempt, one on its
\* third and one on its second
C17_Witness ==
    /\ calls[1].pc = "attempt" /\ calls[2].pc = "attempt"
    /\ BodyBytes(1) = "payload" /\ BodyBytes(2) = "other"
    /\ Len(calls[1].seen) = 2 /\ Len(calls[2].seen) = 1
    /\ calls[1].seen[2].data = "payload" /\ calls[2].seen[1].data = "other"

----------------------------------------------------------------------------
(* Claims on the logging wrappers *)

\* the calls of the base transport or the base handler
InnerEvents == SelectSeq(trace, LAMBDA e : e.layer \in {"base", "handler"})

\* what the logging wrapper logged
LoggingEvents == SelectSeq(trace, LAMBDA e : e.layer \in {"logging", "hlogging"})

ThroughLogging == op.name \in {"LoggingTransport", "LoggingHandler"}

ConnectionUpgrade == HeaderGet(req.header, "Connection") = "Upgrade"

\* the body the request came with
GivenBody == IF req.data = "" THEN NoBody ELSE WireBody(req.data, 1)

\* C18: for a request that is no upgrade, whatever the two logging flags,
\* the inner transport (or handler) reads from the request body exactly the
\* bytes X the request came with, and the caller of the logging transport
\* reads from the response body exactly the bytes Y the inner transport
\* answered.
C18_LoggingLeavesBodiesReadable ==
    (ThroughLogging /\ ~ConnectionUpgrade) =>
        /\ \A k \in DOMAIN InnerEvents :
               InnerEvents[k].err = Nil => InnerEvents[k].data = req.data
        /\ (op.name = "LoggingTransport" /\ pc = "done" /\ ret.err = Nil) =>
               /\ Len(InnerEvents) = 1
               /\ ret.resp.status = InnerEvents[1].status
               /\ ReadAll(ret.resp.body) = BodyOf(InnerEvents[1].status)

\* both bodies were logged, and both were read in full after that
C18_Witness ==
    /\ op.name = "LoggingTransport" /\ pc = "done" /\ ret.err = Nil
    /\ ~ConnectionUpgrade /\ stack[2].reqBody /\ stack[2].respBody
    /\ req.data = "payload" /\ InnerEvents[1].data = "payload"
    /\ Len(LoggingEvents) = 2
    /\ LoggingEvents[1].data = "payload" /\ LoggingEvents[2].data = "json"
    /\ ReadAll(ret.resp.body) = "json"

\* C19: for a request whose Connection header is Upgrade, whatever the two
\* logging flags, the logging transport and the logging handler log no body,
\* leave the request's body stream and the response's body stream in place
\* and unread, hand the response writer on as it came, and call the inner
\* transport or handler once; the handler logs nothing of the response, the
\* transport logs of the response its status code and nothing else.
C19_UpgradeIsNeverDrained ==
    (ThroughLogging /\ ConnectionUpgrade) =>
        /\ \A k \in DOMAIN LoggingEvents :
               /\ LoggingEvents[k].data = ""
               /\ LoggingEvents[k].status # 0 =>
                      /\ LoggingEvents[k].layer = "logging"
                      /\ LoggingEvents[k].phase = "post"
                      /\ LoggingEvents[k].status = InnerEvents[1].status
        /\ Len(InnerEvents) <= 1
        /\ pc = "done" => Len(InnerEvents) = 1
        /\ req.body = [GivenBody EXCEPT
                          !.consumed = /\ req.data # ""
                                       /\ \E k \in DOMAIN InnerEvents :
                                              InnerEvents[k].err = Nil]
        /\ req.w = (IF op.name = "LoggingHandler" THEN "w" ELSE Nil)
        /\ \A k \in DOMAIN InnerEvents :
               /\ InnerEvents[k].err = Nil => InnerEvents[k].data = req.data
               /\ InnerEvents[k].w = req.w
        /\ (op.name = "LoggingTransport" /\ pc = "done" /\ ret.err = Nil) =>
               ret.resp.body = WireBody(BodyOf(ret.resp.status), 1)

\* an upgrade request with a body went through the logging transport with
\* both flags set: the bodies are the streams they were, the status is logged
C19_Witness ==
    /\ op.name = "LoggingTransport" /\ pc = "done" /\ ConnectionUpgrade
    /\ stack[2].reqBody /\ stack[2].respBody
    /\ req.data = "payload" /\ Len(InnerEvents) = 1
    /\ InnerEvents[1].data = "payload" /\ ret.err = Nil
    /\ ret.resp.body = WireBody("json", 1)
    /\ Len(LoggingEvents) = 2 /\ LoggingEvents[2].status = 200

\* C19 as stated: for a request whose Connection header is Upgrade the
\* logging wrappers drain and replace nothing, call the inner transport or
\* handler once, and log the request's metadata only, so nothing of the
\* response.
C19_UpgradeLogsRequestMetadataOnly ==
    /\ C19_UpgradeIsNeverDrained
    /\ (ThroughLogging /\ ConnectionUpgrade) =>
           \A k \in DOMAIN LoggingEvents : LoggingEvents[k].status = 0

----------------------------------------------------------------------------
(* Claims on the query of the built request *)

\* the values of key among pairs, in the order of the pairs
RECURSIVE ValuesAmong(_, _)
ValuesAmong(pairs, key) ==
    IF pairs = <<>> THEN <<>>
    ELSE (IF pairs[1][1] = key THEN <<pairs[1][2]>> ELSE <<>>)
             \o ValuesAmong(Tail(pairs), key)

BuiltQuery == op.name = "BuildHTTPReq" /\ pc = "done" /\ result.err = Nil

\* C20: the request BuildHTTPReq builds carries, for every key, the values
\* the builder accumulated for it followed by the values the path's query
\* string gives it, each as often as it occurs and in its order, and nothing
\* else.
C20_QueryIsBuilderThenPath ==
    BuiltQuery =>
        \A key \in QKeys :
            ValuesAmong(req.rawQuery, key) =
                urlValuesObjs[builders[op.b].urlValues][key]
                    \o ValuesAmong(RawQueryOf(builders[op.b].path), key)

\* a key with two values from the builder and two from the path, a value
\* among them that both give
C20_Witness ==
    /\ BuiltQuery
    /\ builders[op.b].path = "/a?q1=a&q2=z&q1=z"
    /\ urlValuesObjs[builders[op.b].urlValues]["q1"] = <<"z", "a">>
    /\ ValuesAmong(req.rawQuery, "q1") = <<"z", "a", "a", "z">>
    /\ Len(req.rawQuery) >= 5

----------------------------------------------------------------------------
(* Claims on the headers of the built request *)

\* the header values the builder of the call holds for key
ExplicitHeader(key) == headerObjs[builders[op.b].header][key]

\* the builder's content type, application/json when it has none
ConfiguredContentType ==
    IF builders[op.b].contentType = "" THEN "application/json"
    ELSE builders[op.b].contentType

C30_EveryExplicitValueIsSent ==
    BuiltQuery =>
        \A key \in HKeys :
            \A k \in DOMAIN ExplicitHeader(key) :
                \E j \in DOMAIN req.header[key] :
                    req.header[key][j] = ExplicitHeader(key)[k]

----------------------------------------------------------------------------
(* Claims on the steps of Do *)

DoReturned == op.name \in {"Do", "DoWithTransport", "DoWithClient"} /\ pc = "done"

\* C22: Do, DoWithTransport and DoWithClient return the error of the first
\* step that fails and run no step after it: with a deferred error or a
\* request that cannot be built the transport is not invoked; with a failed
\* execution or status validation nothing is decoded; the target is written
\* only when there is one and every step succeeded; and no error is returned
\* only when every step succeeded.
C22_FirstFailureEndsDo ==
    DoReturned =>
        LET bb == builders[op.b]
        IN  /\ IF bb.err # Nil
               THEN result.err = bb.err /\ trace = <<>> /\ target = ""
               ELSE IF bb.req = "unencodable"
               THEN result.err = ErrEncode /\ trace = <<>> /\ target = ""
               ELSE /\ trace # <<>>
                    /\ IF ret.err # Nil
                       THEN result.err = ret.err /\ target = ""
                       ELSE IF bb.resp = Nil
                       THEN result.err = Nil /\ target = ""
                       ELSE \/ result.err = Nil /\ target = "json"
                            \/ /\ result.err \in {ErrBodyRead, ErrDecode}
                               /\ target = ""
            /\ result.err = Nil =>
                   /\ bb.err = Nil /\ result.built /\ ret.err = Nil
                   /\ BaseAnswered /\ BaseAnswer.err = Nil
                   /\ bb.resp # Nil => target = "json"
            /\ target # "" => bb.resp # Nil /\ result.err = Nil

\* a DoWithTransport whose transport answered a body the codec cannot decode:
\* the decode error is returned and the target is left alone
C22_Witness ==
    /\ DoReturned /\ op.name = "DoWithTransport"
    /\ builders[op.b].resp # Nil /\ ret.err = Nil /\ ret.resp.status = 500
    /\ result.err = ErrDecode /\ target = ""

----------------------------------------------------------------------------
(* Claims on the status-envelope codec *)

StatusDecoded == op.name = "StatusJsonCodec.Decode" /\ pc = "done"

\* the document is JSON and its data fits the target
EnvelopeParses(e) == e.wellFormed /\ e.data # "mistyped"

\* C23: StatusJsonCodec.Decode returns no error exactly when the document
\* parses and its code is 0, and then the target holds the document's data;
\* for a document that parses with another code it returns the error
\* "unexpected code:<code>,msg:<msg>" of that code and msg, which no other
\* code or msg gives.
C23_OnlyCodeZeroSucceeds ==
    StatusDecoded =>
        LET e == op.args[1]
        IN  /\ result.err = Nil <=> (EnvelopeParses(e) /\ e.code = 0)
            /\ (result.err = Nil /\ e.data = "value") => target = "value"
            /\ (EnvelopeParses(e) /\ e.code # 0) =>
                   /\ result.err =
                          "unexpected code:" \o ToString(e.code) \o ",msg:" \o e.msg
                   /\ \A f \in Envelopes :
                          (f.code # e.code \/ f.msg # e.msg) =>
                              result.err # UnexpectedCode(f.code, f.msg)

\* a well-formed document with code 500 and a msg was refused
C23_Witness ==
    /\ StatusDecoded
    /\ op.args[1] = [wellFormed |-> TRUE, code |-> 500, msg |-> "denied",
                     data |-> "value"]
    /\ result.err = "unexpected code:500,msg:denied"

----------------------------------------------------------------------------
(* Claims on the body replay helper *)

Drained == op.name \in {"DrainBody", "drainBody"} /\ pc = "done"

\* the reads of the stream named
ReadsOf(stream) == SelectSeq(trace, LAMBDA e : e.layer = stream)

\* C24: called on an unread stream with content X, the empty content
\* included, DrainBody and drainBody fail only if reading the stream fails;
\* otherwise the bytes they return are X, the original stream is read to its
\* end and closed (a later read of it yields nothing), and the stream they
\* return yields exactly X when read.
C24_DrainedStreamReplays ==
    Drained =>
        /\ result.err # Nil => (req.body.kind = "wire" /\ Done(1))
        /\ result.err = Nil =>
               /\ target = req.data
               /\ req.body.consumed /\ req.body.closed
               /\ ret.resp.body.kind # "none" /\ ~ret.resp.body.closed
               /\ ~ret.resp.body.consumed => ReadAll(ret.resp.body) = req.data
               /\ \A k \in DOMAIN ReadsOf("replay") :
                      ReadsOf("replay")[k].data = req.data
               /\ \A k \in DOMAIN ReadsOf("original") :
                      ReadsOf("original")[k].data = ""

\* an empty stream off the wire was drained without error, and the stream
\* returned was read: it gave the empty content
C24_Witness ==
    /\ Drained /\ op.name = "DrainBody" /\ result.err = Nil
    /\ req.body.kind = "wire" /\ req.data = "" /\ target = ""
    /\ Len(ReadsOf("replay")) = 1

----------------------------------------------------------------------------
(* Claims on the interceptors and the option-based path *)

RanOf(layer) == SelectSeq(trace, LAMBDA e : e.layer = layer)

\* the interceptors of the chain that return an error for the call at hand
FailingIn(chain) ==
    {k \in DOMAIN chain :
        \/ chain[k] = "fail"
        \/ chain[k] = "status" /\ ret.resp.status # 200}

\* how many interceptors of the chain are to run: up to the first that
\* fails, or all of them
RunsOf(chain) ==
    IF FailingIn(chain) = {} THEN Len(chain)
    ELSE CHOOSE k \in FailingIn(chain) : \A j \in FailingIn(chain) : k <= j

ChainRan(name, layer) ==
    LET ran == RanOf(layer)
    IN  /\ \A k \in DOMAIN ran : ran[k].id = k
        /\ \A k \in DOMAIN ran : k < Len(ran) => ran[k].err = Nil
        /\ Len(ran) <= RunsOf(stack)
        /\ (op.name = name /\ pc = "done") =>
               /\ Len(ran) = RunsOf(stack)
               /\ result.err = (IF ran = <<>> THEN Nil ELSE ran[Len(ran)].err)
               /\ result.err = Nil <=> FailingIn(stack) = {}

\* C25: ChainedReqInterceptor and ChainedRespInterceptor run their
\* interceptors once each in the order given, up to and including the first
\* that returns an error, whose error they return; no interceptor after it
\* runs; they return nil exactly when every interceptor ran and returned nil.
C25_ChainStopsAtFirstFailure ==
    /\ op.name = "ChainedReqInterceptor" =>
           ChainRan("ChainedReqInterceptor", "reqInterceptor")
    /\ op.name = "ChainedRespInterceptor" =>
           ChainRan("ChainedRespInterceptor", "respInterceptor")

\* a chain of two whose first interceptor failed: the second never ran
C25_Witness ==
    /\ op.name = "ChainedRespInterceptor" /\ pc = "done"
    /\ stack = <<"status", "logging">> /\ ret.resp.status = 500
    /\ Len(RanOf("respInterceptor")) = 1
    /\ result.err = "expected statuscode:200"

\* the place of a step in do
StepRank(layer) ==
    CASE layer = "reqInterceptor" -> 1
      [] layer = "client" -> 2
      [] layer = "respInterceptor" -> 3
      [] layer = "codec" -> 4

\* C29: in do the request interceptors run before the client is invoked, the
\* response interceptors after it answered and before the codec decodes; if
\* a request interceptor fails the client is not invoked, if a response
\* interceptor fails nothing is decoded into the target, and when the codec
\* decodes, it decodes the bytes every response interceptor was given.
C29_InterceptorsBracketTheSend ==
    op.name = "do" =>
        /\ \A j, k \in DOMAIN trace :
               j < k => StepRank(trace[j].layer) <= StepRank(trace[k].layer)
        /\ Len(RanOf("client")) <= 1 /\ Len(RanOf("codec")) <= 1
        /\ (\E k \in DOMAIN trace :
                trace[k].layer = "reqInterceptor" /\ trace[k].err # Nil) =>
               /\ RanOf("client") = <<>>
               /\ pc = "done" /\ result.err # Nil
        /\ (\E k \in DOMAIN trace :
                trace[k].layer = "respInterceptor" /\ trace[k].err # Nil) =>
               /\ RanOf("codec") = <<>> /\ target = ""
               /\ pc = "done" /\ result.err # Nil
        /\ RanOf("codec") # <<>> =>
               /\ Len(RanOf("respInterceptor")) = Len(calls[1].respInterceptor)
               /\ RanOf("codec")[1].data = BodyOf(RanOf("client")[1].status)
               /\ \A k \in DOMAIN RanOf("respInterceptor") :
                      RanOf("respInterceptor")[k].data = RanOf("codec")[1].data

\* a do whose two response interceptors, one of them the logging one, and
\* whose codec all got the bytes of the answer
C29_Witness ==
    /\ op.name = "do" /\ pc = "done" /\ result.err = Nil /\ target = "json"
    /\ calls[1].respInterceptor = <<"logging", "pass">>
    /\ calls[1].reqInterceptor = <<"logging">>
    /\ Len(RanOf("respInterceptor")) = 2
    /\ RanOf("respInterceptor")[2].data = "json"
    /\ RanOf("codec")[1].data = "json"

----------------------------------------------------------------------------
(* Claims on the typed handler *)

\* C26: the typed handler answers 400 with an empty body, and does not call
\* the user's handler, when decoding the request fails; it answers 500 with
\* an empty body when the user's handler returns an error or its value cannot
\* be encoded; a body is written only when decoding, the handler and the
\* encoding all succeeded.
C26_TypedHandlerAnswers ==
    (op.name = "Handler" /\ RanOf("typed") # <<>>) =>
        LET decoded == RanOf("typed")[1]
            handled == RanOf("user")
        IN  /\ Len(RanOf("typed")) = 1 /\ Len(handled) <= 1
            /\ decoded.err # Nil =>
                   /\ handled = <<>>
                   /\ pc # "handling"
                   /\ ret.resp = [status |-> 400, body |-> BytesBody("")]
            /\ (handled # <<>> /\ handled[1].err # Nil) =>
                   ret.resp = [status |-> 500, body |-> BytesBody("")]
            /\ (handled # <<>> /\ handled[1].err # Nil) <=>
                   (handled # <<>> /\ handled[1].data \in {"error", "unencodable"})
            /\ ret.resp.body.data # "" =>
                   /\ decoded.err = Nil /\ decoded.data = "json"
                   /\ handled # <<>> /\ handled[1].err = Nil
                   /\ ret.resp = [status |-> 200, body |-> BytesBody(handled[1].data)]

\* a request the codec cannot decode was answered 400 without a body and
\* without a call of the user's handler
C26_Witness ==
    /\ op.name = "Handler" /\ pc = "done"
    /\ RanOf("typed") # <<>> /\ RanOf("typed")[1].err = ErrDecode
    /\ RanOf("user") = <<>>
    /\ ret.resp.status = 400 /\ ret.resp.body.data = ""

----------------------------------------------------------------------------
(* Claims about the package-level singletons *)

\* the goroutines that have a finished call to look at
Returned == {g \in DOMAIN calls : calls[g].pc = "idle" /\ calls[g].n > 0}

\* C27: under every interleaving of concurrent accessor calls, the
\* constructor of each singleton runs at most once, every finished call
\* returned the instance that one run made (never nil), and a package
\* variable that was assigned is never assigned again.
C27_SingletonsAreBuiltOnce ==
    /\ [](\A f \in Accessors :
              /\ singletons[f].built <= 1
              /\ singletons[f].instance = singletons[f].built
              /\ singletons[f].done = 1 => singletons[f].built = 1)
    /\ [](\A g \in Returned :
              /\ calls[g].got # 0
              /\ calls[g].got = singletons[calls[g].fn].instance)
    /\ [][\A f \in Accessors :
              singletons[f].instance # 0 =>
                  singletons'[f].instance = singletons[f].instance]_vars

\* both goroutines have called the same accessor and hold the same instance,
\* and one of them has called a second accessor before
C27_Witness ==
    /\ \A g \in Goroutines : g \in Returned
    /\ calls[1].fn = calls[2].fn
    /\ calls[1].got = calls[2].got /\ calls[1].got # 0
    /\ calls[1].n = 2
    /\ \E f \in Accessors : f # calls[1].fn /\ singletons[f].built = 1

----------------------------------------------------------------------------
(* Claims about the accepted-status-code list *)

\* C28: every builder has its own copy of the accepted-status-code list, so
\* that a later change to a list passed to ExpectedStatusCodes is never
\* visible through any builder: the codes a builder accepts never change
\* once the builder was made.
C28_CodesAreNeverShared ==
    [][\A i \in DOMAIN builders : CodesOf(i)' = CodesOf(i)]_vars

----------------------------------------------------------------------------
(* Claims on the response handed back through the timeout wrapper *)

\* Do has the answer of its transport stack in hand
DoHoldsResponse ==
    /\ op.name = "Do" /\ ret.err = Nil
    /\ pc = "done" \/ (pc = "up" /\ pos = 0)

\* the caller has not cancelled its own context
CallerGoesOn == ~Done(1)

\* C31: a response returned through the timeout wrapper stays readable: the
\* context the wrapper derived is not cancelled while the caller of Do goes
\* on and has not read the body, and with response-body logging off a Do
\* with a target decodes the whole body of a 200 response.
C31_TimeoutLeavesBodyReadable ==
    /\ (DoHoldsResponse /\ pc = "up" /\ CallerGoesOn /\ ret.resp.body.kind = "wire") =>
           CtxErr(ret.resp.body.ctx) # ErrCanceled
    /\ (/\ DoHoldsResponse /\ pc = "done" /\ CallerGoesOn
        /\ ~builders[op.b].loggingResp /\ builders[op.b].resp # Nil
        /\ ret.resp.status = StatusOK) =>
           result.err = Nil /\ target = BodyOf(StatusOK)

----------------------------------------------------------------------------
(* Claims on what a RoundTrip call of the retry transport gives back *)

\* C32: for every maxRetry, a RoundTrip call of the retry transport that got
\* past saving the body has invoked the wrapped transport at least once, and
\* every call returns a response or an error, never neither.
C32_RoundTripNeverReturnsNothing ==
    \A c \in DOMAIN calls :
        calls[c].pc = "done" =>
            /\ calls[c].ret.err # ErrBodyRead => calls[c].seen # <<>>
            /\ calls[c].ret.status # 0 \/ calls[c].ret.err # Nil

----------------------------------------------------------------------------
(* Claims on the responses a layer does not hand on *)

\* the responses the retry transport got in call c and did not return
DiscardedBy(c) ==
    {k \in DOMAIN calls[c].seen :
        /\ calls[c].seen[k].err = Nil
        /\ ~(k = Len(calls[c].seen) /\ calls[c].ret.err = Nil)}

\* the returns of a status-code wrapper that rejected the response it got
Rejections ==
    {k \in DOMAIN trace :
        /\ trace[k].layer \in {"statuscode", "statuscodes"} /\ trace[k].phase = "post"
        /\ trace[k].body.kind # "none" /\ trace[k].err # Nil}

\* C33: a response a layer got from the transport it wraps and does not hand
\* to its caller has its body closed when the layer returns: the retry
\* transport has closed every response it discarded, and a status-code
\* wrapper has closed the response it rejected.
C33_DroppedResponsesAreClosed ==
    /\ \A c \in DOMAIN calls :
           calls[c].pc = "done" => \A k \in DiscardedBy(c) : calls[c].seen[k].closed
    /\ \A k \in Rejections : trace[k].body.closed

====
